---- MODULE Spec2Model ----
(***************************************************************************)
(* Session validation dashboard: the rule evaluator (validationUtils.ts)   *)
(* and the validation pages / providers that run it over the sessions.     *)
(*                                                                         *)
(* JavaScript values are records of one fixed shape, so that values of     *)
(* different JavaScript types can sit in the same list:                    *)
(*   t : "undefined" | "null" | "number" | "NaN" | "string" | "boolean"    *)
(*       | "array" | "object"                                              *)
(*   n : the integer of a number, s : the text of a string,                *)
(*   b : the flag of a boolean, a : the elements of an array,              *)
(*   o : the properties of an object (a function from keys to values).     *)
(* Numbers are integers; NaN is the only non-integer number modelled.      *)
(***************************************************************************)
EXTENDS Integers, Sequences, FiniteSets, TLC

\* ------------------------------------------------------------------------
\* JavaScript values
\* ------------------------------------------------------------------------
Undef == [t |-> "undefined", n |-> 0, s |-> "", b |-> FALSE, a |-> <<>>, o |-> <<>>]

Null == [t |-> "null", n |-> 0, s |-> "", b |-> FALSE, a |-> <<>>, o |-> <<>>]

NaN == [t |-> "NaN", n |-> 0, s |-> "", b |-> FALSE, a |-> <<>>, o |-> <<>>]

Num(k) == [t |-> "number", n |-> k, s |-> "", b |-> FALSE, a |-> <<>>, o |-> <<>>]

Str(x) == [t |-> "string", n |-> 0, s |-> x, b |-> FALSE, a |-> <<>>, o |-> <<>>]

Bool(x) == [t |-> "boolean", n |-> 0, s |-> "", b |-> x, a |-> <<>>, o |-> <<>>]

Arr(xs) == [t |-> "array", n |-> 0, s |-> "", b |-> FALSE, a |-> xs, o |-> <<>>]

Obj(f) == [t |-> "object", n |-> 0, s |-> "", b |-> FALSE, a |-> <<>>, o |-> f]

\* value === undefined || value === null
IsNullish(v) == v.t \in {"undefined", "null"}

\* v || d  for a value that is nullish or a number
Nullish_or(v, d) == IF v.t \in {"undefined", "null"} \/ v = Num(0) THEN d ELSE v

\* v ?? d
Nullish(v, d) == IF IsNullish(v) THEN d ELSE v

\* obj[key]  (obj?.key when obj may be nullish): a property read never
\* throws here because every caller guards the nullish receiver.
Prop(v, key) ==
  IF v.t = "object" /\ key \in DOMAIN v.o THEN v.o[key] ELSE Undef

\* a conversion that finds every value truthy
Truthy_always(v) == TRUE

\* ToBoolean
Truthy(v) ==
  CASE v.t \in {"undefined", "null", "NaN"} -> FALSE
    [] v.t = "number" -> v.n # 0
    [] v.t = "string" -> v.s # ""
    [] v.t = "boolean" -> v.b
    [] OTHER -> TRUE

RECURSIVE NatToString(_)
NatToString(k) ==
  LET digit(d) == SubSeq("0123456789", d + 1, d + 1)
  IN IF k < 10 THEN digit(k) ELSE NatToString(k \div 10) \o digit(k % 10)

\* String(v) for a value that is not an array or an object
PrimToString(v) ==
  CASE v.t = "undefined" -> "undefined"
    [] v.t = "null" -> "null"
    [] v.t = "NaN" -> "NaN"
    [] v.t = "number" -> (IF v.n < 0 THEN "-" \o NatToString(-v.n) ELSE NatToString(v.n))
    [] v.t = "string" -> v.s
    [] v.t = "boolean" -> (IF v.b THEN "true" ELSE "false")
    [] OTHER -> "[object Object]"

\* Array.prototype.join(','): null and undefined elements give ''
RECURSIVE JoinComma(_)
JoinComma(xs) ==
  IF xs = <<>> THEN ""
  ELSE LET h == IF IsNullish(xs[1]) THEN "" ELSE PrimToString(xs[1])
       IN IF Len(xs) = 1 THEN h ELSE h \o "," \o JoinComma(Tail(xs))

\* String(v)
ToStringJS(v) == IF v.t = "array" THEN JoinComma(v.a) ELSE PrimToString(v)

AllDigits(x) ==
  \A i \in 1..Len(x) : SubSeq(x, i, i) \in {"0", "1", "2", "3", "4", "5", "6", "7", "8", "9"}

RECURSIVE ParseNat(_)
ParseNat(x) ==
  IF Len(x) = 0 THEN 0
  ELSE LET last == SubSeq(x, Len(x), Len(x))
           digitVal == CHOOSE k \in 0..9 : NatToString(k) = last
       IN 10 * ParseNat(SubSeq(x, 1, Len(x) - 1)) + digitVal

\* StringToNumber for texts without white space, fraction or exponent:
\* '' is 0, an optionally signed digit string is its value, the rest NaN.
StringToNumber(x) ==
  IF x = "" THEN Num(0)
  ELSE IF AllDigits(x) THEN Num(ParseNat(x))
  ELSE IF Len(x) > 1 /\ SubSeq(x, 1, 1) = "-" /\ AllDigits(SubSeq(x, 2, Len(x)))
       THEN Num(0 - ParseNat(SubSeq(x, 2, Len(x))))
  ELSE NaN

\* Number(v)
ToNumber(v) ==
  CASE v.t = "undefined" -> NaN
    [] v.t = "null" -> Num(0)
    [] v.t = "NaN" -> NaN
    [] v.t = "number" -> v
    [] v.t = "boolean" -> (IF v.b THEN Num(1) ELSE Num(0))
    [] v.t = "string" -> StringToNumber(v.s)
    [] v.t = "array" -> StringToNumber(JoinComma(v.a))
    [] OTHER -> NaN

\* isNaN(x) for a number x
IsNaN(x) == x.t = "NaN"

\* x >= y, x <= y, x > y, x < y where x is a number: y is converted with
\* ToNumber and every comparison with NaN is false.
JsGe(x, y) == LET r == ToNumber(y) IN ~IsNaN(x) /\ ~IsNaN(r) /\ x.n >= r.n

JsLe(x, y) == LET r == ToNumber(y) IN ~IsNaN(x) /\ ~IsNaN(r) /\ x.n <= r.n

\* const [min, max] = v : arrays and strings are iterable, the other
\* values raise a TypeError.
IsIterable(v) == v.t \in {"array", "string"}

Destructure(v, i) ==
  IF v.t = "array" THEN (IF i <= Len(v.a) THEN v.a[i] ELSE Undef)
  ELSE IF v.t = "string" THEN (IF i <= Len(v.s) THEN Str(SubSeq(v.s, i, i)) ELSE Undef)
  ELSE Undef

\* String.prototype.includes / startsWith / endsWith
Includes(x, y) ==
  \E i \in 1..(Len(x) + 1) : i + Len(y) - 1 <= Len(x) /\ SubSeq(x, i, i + Len(y) - 1) = y

StartsWith(x, y) == Len(y) <= Len(x) /\ SubSeq(x, 1, Len(y)) = y

EndsWith(x, y) == Len(y) <= Len(x) /\ SubSeq(x, Len(x) - Len(y) + 1, Len(x)) = y

\* ------------------------------------------------------------------------
\* Field resolution (validationUtils.ts)
\* ------------------------------------------------------------------------
\* path.split('.')
RECURSIVE SplitFrom(_, _, _)
SplitFrom(x, i, cur) ==
  IF i > Len(x) THEN <<cur>>
  ELSE IF SubSeq(x, i, i) = "." THEN <<cur>> \o SplitFrom(x, i + 1, "")
  ELSE SplitFrom(x, i + 1, cur \o SubSeq(x, i, i))

\* the path taken as one key, without split
Split_whole(x) == <<x>>

Split(x) == SplitFrom(x, 1, "")

\* the for loop of getNestedProperty over the keys that are left
RECURSIVE Walk(_, _)
Walk(value, keys) ==
  IF keys = <<>> THEN value
  ELSE IF IsNullish(value) THEN Null
  ELSE Walk(Prop(value, keys[1]), Tail(keys))

getNestedProperty(obj, path) ==
  IF ~Truthy(obj) \/ path = "" THEN Null
  ELSE Walk(obj, Split(path))

\* case '<field>': return session.<attr> ?? null
FlatAlias ==
  ( "fps.min" :> "fpsMin" @@ "fps.max" :> "fpsMax" @@ "fps.median" :> "fpsMedian"
 @@ "fps.stability" :> "fpsStability" @@ "fps.onePercentLow" :> "fpsOnePercentLow"
 @@ "cpu.min" :> "cpuUsageMin" @@ "cpu.max" :> "cpuUsageMax"
 @@ "cpu.median" :> "cpuUsageMedian" @@ "cpu.avg" :> "cpuUsageAvg"
 @@ "cpu.total" :> "totalCpuUsageAvg"
 @@ "gpu.min" :> "gpuUsageMin" @@ "gpu.max" :> "gpuUsageMax"
 @@ "gpu.median" :> "gpuUsageMedian" @@ "gpu.avg" :> "gpuUsageAvg"
 @@ "memory.min" :> "memUsageMin" @@ "memory.max" :> "memUsageMax"
 @@ "memory.median" :> "memUsageMedian" @@ "memory.avg" :> "memUsageAvg"
 @@ "androidMemory.min" :> "androidMemUsageMin" @@ "androidMemory.max" :> "androidMemUsageMax"
 @@ "androidMemory.median" :> "androidMemUsageMedian" @@ "androidMemory.avg" :> "androidMemUsageAvg"
 @@ "battery.first" :> "firstBat" @@ "battery.last" :> "lastBat"
 @@ "power.usage" :> "powerUsage" @@ "power.mWAvg" :> "mWAvg"
 @@ "power.mAh" :> "mAh" @@ "power.mAAvg" :> "mAAvg"
 @@ "janks.big.count" :> "bigJanksCount" @@ "janks.big.per10min" :> "bigJanks10Mins"
 @@ "janks.small.count" :> "smallJanksCount" @@ "janks.small.per10min" :> "smallJanks10Mins"
 @@ "janks.total.count" :> "janksCount" @@ "janks.total.per10min" :> "janks10Mins"
 @@ "app.size" :> "appSize" @@ "app.cache" :> "appCache" @@ "app.data" :> "appData"
 @@ "app.launchTime" :> "appLaunchTimeMs"
 @@ "device.memory.total" :> "totalDeviceMemory"
 @@ "session.duration" :> "timePlayed" @@ "session.timestamp" :> "sessionDate"
 @@ "session.timePushed" :> "timePushed" @@ "session.date" :> "sessionDate"
 @@ "session.id" :> "id" @@ "session.uuid" :> "uuid" )

\* case '<field>': return session.<obj>?.<attr> ?? null
NestedAlias ==
    "app.name" :> <<"app", "name">> @@ "app.packageName" :> <<"app", "packageName">>
 @@ "app.version" :> <<"app", "version">> @@ "app.versionCode" :> <<"app", "versionCode">>
 @@ "device.model" :> <<"device", "model">>
 @@ "device.manufacturer" :> <<"device", "manufacturer">>
 @@ "device.battery.capacity" :> <<"device", "batteryCapacity">>
 @@ "device.battery.voltage" :> <<"device", "batteryVoltage">>
 @@ "device.screen.width" :> <<"device", "screenWidth">>
 @@ "device.screen.height" :> <<"device", "screenHeight">>
 @@ "device.screen.refreshRate" :> <<"device", "refreshRate">>
 @@ "device.androidSdk" :> <<"device", "androidSdkInt">>
 @@ "device.cpu.cores" :> <<"device", "cpu", "numCores">>
 @@ "device.cpu.maxFreq" :> <<"device", "cpu", "maxFreq">>
 @@ "device.cpu.minFreq" :> <<"device", "cpu", "minFreq">>
 @@ "device.baseband" :> <<"device", "baseband">>
 @@ "device.gpu.vendor" :> <<"device", "gpu", "vendor">>
 @@ "device.gpu.renderer" :> <<"device", "gpu", "renderer">>
 @@ "network.received" :> <<"networkAppUsage", "appTotalDataReceived">>
 @@ "network.sent" :> <<"networkAppUsage", "appTotalDataSent">>
 @@ "session.recordedBy" :> <<"user", "userPlayAccount">>
 @@ "session.dataSet" :> <<"user", "dataSet">>
 @@ "tags.githash" :> <<"tags", "githash">> @@ "tags.injected" :> <<"tags", "injected">>

\* session.a?.b?.c : undefined as soon as a receiver is nullish
RECURSIVE OptChain(_, _)
OptChain(value, keys) ==
  IF keys = <<>> THEN value
  ELSE IF IsNullish(value) THEN Undef
  ELSE OptChain(Prop(value, keys[1]), Tail(keys))

\* the digits parseFloat reads at the start of a text
RECURSIVE DigitPrefix(_)
DigitPrefix(x) ==
  IF Len(x) > 0 /\ AllDigits(SubSeq(x, 1, 1))
  THEN SubSeq(x, 1, 1) \o DigitPrefix(SubSeq(x, 2, Len(x)))
  ELSE ""

\* parseFloat(v) for texts without fraction or exponent
ParseFloat(v) ==
  LET x == ToStringJS(v)
      p == DigitPrefix(x)
  IN IF p = "" THEN NaN ELSE Num(ParseNat(p))

\* a - b
JsMinus(x, y) ==
  LET l == ToNumber(x)
      r == ToNumber(y)
  IN IF IsNaN(l) \/ IsNaN(r) THEN NaN ELSE Num(l.n - r.n)

getFieldValue(session, field) ==
  CASE field \in DOMAIN FlatAlias -> Nullish(Prop(session, FlatAlias[field]), Null)
    [] field \in DOMAIN NestedAlias -> Nullish(OptChain(session, NestedAlias[field]), Null)
    [] field = "battery.drain" ->
         (IF Truthy(Prop(session, "firstBat")) /\ Truthy(Prop(session, "lastBat"))
          THEN JsMinus(Prop(session, "firstBat"), Prop(session, "lastBat"))
          ELSE Null)
    [] field = "device.androidVersion" ->
         (IF Truthy(OptChain(session, <<"device", "androidVersionRelease">>))
          THEN ParseFloat(OptChain(session, <<"device", "androidVersionRelease">>))
          ELSE Null)
    [] field = "session.isActive" -> (IF Truthy(Prop(session, "isActive")) THEN Num(1) ELSE Num(0))
    [] field = "session.isCharging" -> (IF Truthy(Prop(session, "isCharging")) THEN Num(1) ELSE Num(0))
    [] OTHER -> getNestedProperty(session, field)

\* ------------------------------------------------------------------------
\* Regular expressions and dates, as far as validateRule uses them
\* ------------------------------------------------------------------------
\* number of unclosed '[' (class) and '(' (group) after reading a pattern;
\* -1 as soon as a ')' closes nothing or a quantifier has nothing to repeat
RECURSIVE ScanPattern(_, _, _, _)
ScanPattern(p, i, inClass, depth) ==
  IF i > Len(p) THEN (IF inClass THEN -1 ELSE IF depth > 0 THEN -1 ELSE 0)
  ELSE LET c == SubSeq(p, i, i) IN
       IF inClass THEN ScanPattern(p, i + 1, c # "]", depth)
       ELSE IF c = "[" THEN ScanPattern(p, i + 1, TRUE, depth)
       ELSE IF c = "(" THEN ScanPattern(p, i + 1, FALSE, depth + 1)
       ELSE IF c = ")" THEN (IF depth = 0 THEN -1 ELSE ScanPattern(p, i + 1, FALSE, depth - 1))
       ELSE IF c \in {"*", "+", "?"} /\ (i = 1 \/ SubSeq(p, i - 1, i - 1) \in {"(", "^"})
            THEN -1
       ELSE ScanPattern(p, i + 1, FALSE, depth)

\* new RegExp(p) does not throw a SyntaxError
RegExpCompiles(p) == ScanPattern(p, 1, FALSE, 0) = 0

\* regex.test(x) for the patterns the model uses: the session-id pattern of
\* the default rules, and literal texts with an optional ^ and $ anchor.
RegExpTest(p, x) ==
  LET idChars == "abcdefghijklmnopqrstuvwxyzABCDEFGHIJKLMNOPQRSTUVWXYZ0123456789-"
      isIdChar(c) == \E i \in 1..Len(idChars) : SubSeq(idChars, i, i) = c
      meta == {"[", "]", "(", ")", "*", "+", "?", ".", "|", "^", "$"}
      hasMeta(q) == \E i \in 1..Len(q) : SubSeq(q, i, i) \in meta
  IN
  IF p = "^[a-zA-Z0-9-]+$"
  THEN Len(x) > 0 /\ \A i \in 1..Len(x) : isIdChar(SubSeq(x, i, i))
  ELSE LET atStart == Len(p) > 0 /\ SubSeq(p, 1, 1) = "^"
           p1 == IF atStart THEN SubSeq(p, 2, Len(p)) ELSE p
           atEnd == Len(p1) > 0 /\ SubSeq(p1, Len(p1), Len(p1)) = "$"
           body == IF atEnd THEN SubSeq(p1, 1, Len(p1) - 1) ELSE p1
       IN /\ ~hasMeta(body)
          /\ CASE atStart /\ atEnd -> x = body
               [] atStart -> StartsWith(x, body)
               [] atEnd -> EndsWith(x, body)
               [] OTHER -> Includes(x, body)

DayMs == 86400000

\* Date.parse for the ISO texts '1970-01-DD' and '1970-01-DDT12:00:00.000Z';
\* every other text is an invalid date.
DateParse(x) ==
  LET dd == SubSeq(x, 9, 10)
      dateOk == /\ Len(x) >= 10
                /\ SubSeq(x, 1, 8) = "1970-01-"
                /\ AllDigits(dd)
                /\ ParseNat(dd) \in 1..31
  IN IF dateOk /\ Len(x) = 10 THEN Num((ParseNat(dd) - 1) * DayMs)
     ELSE IF dateOk /\ SubSeq(x, 11, Len(x)) = "T12:00:00.000Z"
          THEN Num((ParseNat(dd) - 1) * DayMs + (DayMs \div 2))
     ELSE NaN

\* new Date(v).getTime(): a text is parsed, an array is first joined to a
\* text, every other value is converted with ToNumber.
DateTime(v) ==
  CASE v.t = "string" -> DateParse(v.s)
    [] v.t = "array" -> DateParse(JoinComma(v.a))
    [] v.t = "object" -> NaN
    [] OTHER -> ToNumber(v)

\* (getFullYear, getMonth, getDate) of a valid time, in UTC
CalendarDay(k) == k \div DayMs

\* ------------------------------------------------------------------------
\* validateRule (validationUtils.ts)
\* ------------------------------------------------------------------------
\* the outcome of a call: a returned boolean, or an exception that escapes
Ret(x) == [throws |-> FALSE, value |-> x]

Throw == [throws |-> TRUE, value |-> FALSE]

\* the string branch without the try/catch around new RegExp
validateString_uncaught(value, rule) ==
  LET stringValue == ToStringJS(value)
      targetValue == ToStringJS(rule.value)
  IN CASE rule.condition = "equals" -> Ret(stringValue = targetValue)
       [] rule.condition = "notEquals" -> Ret(stringValue # targetValue)
       [] rule.condition = "contains" -> Ret(Includes(stringValue, targetValue))
       [] rule.condition = "notContains" -> Ret(~Includes(stringValue, targetValue))
       [] rule.condition = "startsWith" -> Ret(StartsWith(stringValue, targetValue))
       [] rule.condition = "endsWith" -> Ret(EndsWith(stringValue, targetValue))
       [] rule.condition = "isEmpty" -> Ret(stringValue = "")
       [] rule.condition = "isNotEmpty" -> Ret(stringValue # "")
       [] rule.condition = "matches" ->
            (IF RegExpCompiles(targetValue) THEN Ret(RegExpTest(targetValue, stringValue))
             ELSE Throw)
       [] OTHER -> Ret(FALSE)

validateString(value, rule) ==
  LET stringValue == ToStringJS(value)
      targetValue == ToStringJS(rule.value)
  IN CASE rule.condition = "equals" -> Ret(stringValue = targetValue)
       [] rule.condition = "notEquals" -> Ret(stringValue # targetValue)
       [] rule.condition = "contains" -> Ret(Includes(stringValue, targetValue))
       [] rule.condition = "notContains" -> Ret(~Includes(stringValue, targetValue))
       [] rule.condition = "startsWith" -> Ret(StartsWith(stringValue, targetValue))
       [] rule.condition = "endsWith" -> Ret(EndsWith(stringValue, targetValue))
       [] rule.condition = "isEmpty" -> Ret(stringValue = "")
       [] rule.condition = "isNotEmpty" -> Ret(stringValue # "")
       [] rule.condition = "matches" ->
            (IF RegExpCompiles(targetValue) THEN Ret(RegExpTest(targetValue, stringValue))
             ELSE Ret(FALSE))
       [] OTHER -> Ret(FALSE)

validateNumber(value, rule) ==
  LET numValue == ToNumber(value)
      targetValue == ToNumber(rule.value)
  IN IF IsNaN(numValue) \/ IsNaN(targetValue) THEN Ret(FALSE)
     ELSE CASE rule.condition = ">" -> Ret(numValue.n > targetValue.n)
            [] rule.condition = ">=" -> Ret(numValue.n >= targetValue.n)
            [] rule.condition = "<" -> Ret(numValue.n < targetValue.n)
            [] rule.condition = "<=" -> Ret(numValue.n <= targetValue.n)
            [] rule.condition = "==" -> Ret(numValue.n = targetValue.n)
            [] rule.condition = "!=" -> Ret(numValue.n # targetValue.n)
            [] rule.condition = "between" ->
                 (IF ~IsIterable(rule.value) THEN Throw
                  ELSE LET min == Destructure(rule.value, 1)
                           max == Destructure(rule.value, 2)
                       IN Ret(JsGe(numValue, min) /\ JsLe(numValue, max)))
            [] OTHER -> Ret(FALSE)

validateBoolean(value, rule) ==
  LET boolValue == Truthy(value)
      targetValue == Truthy(rule.value)
  IN CASE rule.condition = "isTrue" -> Ret(boolValue = TRUE)
       [] rule.condition = "isFalse" -> Ret(boolValue = FALSE)
       [] rule.condition = "equals" -> Ret(boolValue = targetValue)
       [] OTHER -> Ret(FALSE)

validateDate(value, rule) ==
  LET dateValue == DateTime(value)
      targetDate == DateTime(rule.value)
  IN IF IsNaN(dateValue) \/ IsNaN(targetDate) THEN Ret(FALSE)
     ELSE CASE rule.condition = "before" -> Ret(dateValue.n < targetDate.n)
            [] rule.condition = "after" -> Ret(dateValue.n > targetDate.n)
            [] rule.condition = "on" -> Ret(CalendarDay(dateValue.n) = CalendarDay(targetDate.n))
            [] rule.condition = "between" ->
                 \* a TypeError of the destructuring is caught: return false
                 (IF ~IsIterable(rule.value) THEN Ret(FALSE)
                  ELSE LET start == DateTime(Destructure(rule.value, 1))
                           end == DateTime(Destructure(rule.value, 2))
                       IN Ret(JsGe(dateValue, start) /\ JsLe(dateValue, end)))
            [] OTHER -> Ret(FALSE)

validateRule(session, rule) ==
  LET value == getFieldValue(session, rule.field)
  IN IF rule.operator = "string" THEN validateString(value, rule)
     ELSE IF rule.condition = "exists" THEN Ret(~IsNullish(value))
     ELSE IF rule.condition = "notExists" THEN Ret(IsNullish(value))
     ELSE IF IsNullish(value) THEN Ret(FALSE)
     ELSE IF rule.operator = "number" THEN validateNumber(value, rule)
     ELSE IF rule.operator = "boolean" THEN validateBoolean(value, rule)
     ELSE IF rule.operator = "date" THEN validateDate(value, rule)
     ELSE Ret(FALSE)

\* ------------------------------------------------------------------------
\* Evaluating one rule on one session: the inputs of validateRule
\* ------------------------------------------------------------------------
VARIABLES
  argSession,        \* validateRule: the session argument
  argRule,           \* validateRule: the rule argument
  outcome,           \* validateRule: what the call did
  variant,           \* which validation component is mounted
  sessions,          \* SessionContext sessions / provider savedSessions
  rules,             \* the rule list of the mounted component
  newRule,           \* Validation: the new-rule form
  betweenValues,     \* Validation: the min and max inputs of 'between'
  selectedDateRange, \* Validation: the date range picked for 'between'
  selectedSessions,  \* Validation: ids ticked in the session table
  selectedRule,      \* ValidationPage: the rule opened in the rule form
  isRuleFormOpen,    \* ValidationPage: the rule form is shown
  dateRange,         \* ValidationPage: the date filter of a run
  validationResults, \* the published result list
  isValidating,      \* the run-in-progress flag
  lastRun,           \* history: the inputs of the latest published run
  pendingRun,        \* legacy Validation: the run that waits for its timer
  apiToken,          \* AuthProvider: the stored API token
  username,          \* AuthProvider: the stored user name
  isAuthenticated,   \* AuthProvider: the credentials were accepted
  pendingValidations,\* AuthProvider: calls of validateCredentials that await the server
  fetchInProgress,   \* SessionProvider: the guard flag of fetchSessions
  fetchInProgressSeen, \* SessionProvider: the flag as the rendered fetchSessions holds it
  isLoading,         \* SessionProvider: the loading flag
  totalSessions,     \* SessionProvider: the number of sessions reported
  pendingFetches     \* SessionProvider: calls of fetchSessions that await the server

evalVars == <<argSession, argRule, outcome>>

contextVars == <<apiToken, username, isAuthenticated, pendingValidations, fetchInProgress,
                 fetchInProgressSeen, isLoading, totalSessions, pendingFetches>>

pageVars == <<variant, contextVars, sessions, rules, newRule, betweenValues,
              selectedDateRange,
              selectedSessions, selectedRule, isRuleFormOpen, dateRange, validationResults,
              isValidating, lastRun, pendingRun>>

formVars == <<newRule, betweenValues, selectedDateRange>>

ruleFormVars == <<selectedRule, isRuleFormOpen, dateRange>>

vars == <<argSession, argRule, outcome, variant, contextVars, sessions, rules, newRule,
          betweenValues,
          selectedDateRange, selectedSessions, selectedRule, isRuleFormOpen, dateRange,
          validationResults, isValidating, lastRun, pendingRun>>

Operators == {"number", "string", "boolean", "date"}

\* the list with 'matches' moved behind 'isNotEmpty'
getConditionsForOperator_matchesLast(operator) ==
  CASE operator = "number" ->
         <<">", ">=", "<", "<=", "==", "!=", "between", "exists", "notExists">>
    [] operator = "string" ->
         <<"equals", "notEquals", "contains", "notContains", "startsWith",
           "endsWith", "isEmpty", "isNotEmpty", "matches", "exists", "notExists">>
    [] operator = "boolean" -> <<"isTrue", "isFalse", "equals", "exists", "notExists">>
    [] operator = "date" -> <<"before", "after", "on", "between", "exists", "notExists">>
    [] OTHER -> <<>>

getConditionsForOperator(operator) ==
  CASE operator = "number" ->
         <<">", ">=", "<", "<=", "==", "!=", "between", "exists", "notExists">>
    [] operator = "string" ->
         <<"equals", "notEquals", "contains", "notContains", "startsWith",
           "endsWith", "matches", "isEmpty", "isNotEmpty", "exists", "notExists">>
    [] operator = "boolean" -> <<"isTrue", "isFalse", "equals", "exists", "notExists">>
    [] operator = "date" -> <<"before", "after", "on", "between", "exists", "notExists">>
    [] OTHER -> <<>>

\* the kind heuristic: the first group of substrings the field contains
getOperatorForField(field) ==
  LET includesAny(parts) == \E part \in parts : Includes(field, part)
  IN IF includesAny({"date", "timestamp", "timePushed"}) THEN "date"
     ELSE IF includesAny({"isActive", "isCharging", "isShared"}) THEN "boolean"
     ELSE IF includesAny({"name", "model", "manufacturer", "id", "uuid", "package",
                          "recordedBy", "version", "vendor", "renderer", "tag"})
     THEN "string"
     ELSE "number"

Range(f) == {f[i] : i \in DOMAIN f}

\* every member of MetricCondition (types/validation.ts)
MetricConditions ==
  UNION {Range(getConditionsForOperator(operator)) : operator \in Operators} \cup {"not_null"}

ExistenceConditions == {"exists", "notExists", "not_null"}

\* the session of the concrete scenario
ScenarioSession ==
  Obj("fpsMin" :> Num(-5) @@ "cpuUsageAvg" :> Num(45) @@ "timePlayed" :> Num(120))

\* sessions that carry one probe value under every attribute the probed
\* fields read, with or without the nested device object
EvalSessions ==
  LET ProbeValues ==
        {Undef, Null, Num(-5), Num(0), Num(5), Num(100), Num(101), Str("5"), Str(""),
         Bool(TRUE), Bool(FALSE), Str("1970-01-05")}
  IN
  {ScenarioSession, Obj(<<>>)} \cup
  { Obj("id" :> Str("s-1") @@ "fpsMin" :> v @@ "isActive" :> v @@ "sessionDate" :> v
        @@ "device" :> Obj("model" :> v) @@ "custom" :> Obj("flag" :> v)) : v \in ProbeValues }

EvalFields ==
  {"fps.min", "cpu.avg", "session.duration", "session.isActive", "session.date",
   "device.model", "custom.flag"}

EvalRuleValues ==
  {Num(0), Num(5), Str(""), Str("5"), Str("12"), Str("("), Bool(TRUE),
   Arr(<<Num(0), Num(100)>>), Arr(<<Num(5), Num(5)>>), Arr(<<Num(100), Num(0)>>),
   Str("1970-01-05"), Arr(<<Str("1970-01-01"), Str("1970-01-05")>>)}

EvalRules ==
  { [id |-> "r", name |-> "probe", field |-> f, operator |-> op, condition |-> c,
     value |-> v, enabled |-> TRUE] :
       f \in EvalFields, op \in Operators \cup {"text"},
       c \in MetricConditions \cup {"like"}, v \in EvalRuleValues }

NotCalled == [called |-> FALSE, throws |-> FALSE, value |-> FALSE]


\* ------------------------------------------------------------------------
\* The validation components
\* ------------------------------------------------------------------------
Rule(id, name, field, operator, condition, value) ==
  [id |-> id, name |-> name, field |-> field, operator |-> operator,
   condition |-> condition, value |-> value, enabled |-> TRUE]

\* getDefaultRules() of validationUtils.ts (descriptions are display-only)
getDefaultRules ==
  << Rule("1", "Minimum FPS Check", "fps.min", "number", ">=", Num(0)),
     Rule("2", "FPS Stability Check", "fps.stability", "number", "between",
          Arr(<<Num(0), Num(100)>>)),
     Rule("3", "CPU Usage Range", "cpu.avg", "number", "between", Arr(<<Num(0), Num(100)>>)),
     Rule("4", "Battery Level Range", "battery.first", "number", "between",
          Arr(<<Num(0), Num(100)>>)),
     Rule("5", "Session Duration Check", "session.duration", "number", ">", Num(0)),
     Rule("6", "Memory Usage Range", "androidMemory.avg", "number", ">=", Num(0)),
     Rule("7", "Device Model Validation", "device.model", "string", "exists", Str("")),
     Rule("8", "Package Name Check", "app.packageName", "string", "contains", Str(".")),
     Rule("9", "Session ID Format", "session.id", "string", "matches", Str("^[a-zA-Z0-9-]+$")),
     Rule("10", "Network Data Check", "network.received", "number", "exists", Num(0)) >>

\* two sessions as the API mapping delivers them: a complete one and one
\* that carries only the three attributes of the concrete scenario
SessionOne ==
  Obj("id" :> Str("s-1") @@ "fpsMin" :> Num(30) @@ "fpsStability" :> Num(90)
   @@ "cpuUsageAvg" :> Num(45) @@ "firstBat" :> Num(80) @@ "lastBat" :> Num(70)
   @@ "timePlayed" :> Num(120) @@ "androidMemUsageAvg" :> Num(500)
   @@ "app" :> Obj("name" :> Str("Game") @@ "packageName" :> Str("com.example.app"))
   @@ "device" :> Obj("model" :> Str("Pixel"))
   @@ "networkAppUsage" :> Obj("appTotalDataReceived" :> Num(10))
   @@ "appName" :> Str("Game") @@ "deviceModel" :> Str("Pixel")
   @@ "startTime" :> Num(4 * DayMs)
   @@ "metrics" :> Obj("fps" :> Obj("avg" :> Num(60) @@ "stability" :> Num(90))
                       @@ "cpu" :> Obj("avg" :> Num(40))
                       @@ "battery" :> Obj("drain" :> Num(3))))

SessionTwo ==
  Obj("id" :> Str("s-2") @@ "fpsMin" :> Num(-5) @@ "cpuUsageAvg" :> Num(45)
   @@ "timePlayed" :> Num(120)
   @@ "app" :> Obj("name" :> Str("Unknown") @@ "package" :> Str("Unknown"))
   @@ "device" :> Obj("model" :> Str("Unknown"))
   @@ "appName" :> Str("Unknown") @@ "deviceModel" :> Str("Unknown")
   @@ "startTime" :> Num(9 * DayMs)
   @@ "metrics" :> Obj("fps" :> Obj("avg" :> Num(0) @@ "stability" :> Num(0))
                       @@ "cpu" :> Obj("avg" :> Num(45))
                       @@ "battery" :> Obj("drain" :> Num(0))))

\* the session lists a fetch can deliver
SessionLists == {<<>>, <<SessionOne, SessionTwo>>, <<SessionOne>>}

\* the rows of the rule table the user acts on
EditableRows == {1}

\* rules added with the new-rule form in one behaviour
MaxAdded == 2

\* Date.now().toString() at the moment of an add
NowValues == {"1700000000000"}

FormNames == {"", "Custom rule"}

\* the form after mount: the operator effect has put the first number
\* condition in place of the '>=' of useState
InitialNewRule ==
  [name |-> "", field |-> "fps.min", operator |-> "number", condition |-> ">",
   value |-> Num(0), enabled |-> TRUE]

\* the form as addRule resets it
ResetNewRule ==
  [name |-> "", field |-> "fps.min", operator |-> "number", condition |-> ">=",
   value |-> Num(0), enabled |-> TRUE]

InitialBetweenValues == [min |-> Num(0), max |-> Num(100)]

NoDateRange == [from |-> Undef, to |-> Undef]

\* selectedRule === null
NoRule == [id |-> "", name |-> "", field |-> "", operator |-> "", condition |-> "",
           value |-> Null, enabled |-> FALSE, isNull |-> TRUE]

NoRun == [published |-> FALSE, sessionIds |-> <<>>, ruleIds |-> <<>>, known |-> {}]

\* useState of AuthProvider and of SessionProvider, nothing awaited
ContextInit ==
  /\ apiToken = ""
  /\ username = ""
  /\ isAuthenticated = FALSE
  /\ pendingValidations = 0
  /\ fetchInProgress = FALSE
  /\ fetchInProgressSeen = FALSE
  /\ isLoading = FALSE
  /\ totalSessions = 0
  /\ pendingFetches = 0

\* no setTimeout callback is waiting
NoPendingRun == [armed |-> FALSE, selectedSessions |-> <<>>, sessions |-> <<>>, rules |-> <<>>]

IdOf(session) == Prop(session, "id").s

Ids(list) == {IdOf(list[i]) : i \in DOMAIN list}

Enabled(list) == SelectSeq(list, LAMBDA r : r.enabled)

\* sessions.find(s => s.id === sessionId)
HasSession(list, sessionId) == \E i \in DOMAIN list : IdOf(list[i]) = sessionId

FindSession(list, sessionId) ==
  list[CHOOSE i \in DOMAIN list :
         IdOf(list[i]) = sessionId /\ \A j \in 1..(i - 1) : IdOf(list[j]) # sessionId]

\* a || b
JsOr(x, y) == IF Truthy(x) THEN x ELSE y

Map(f(_), list) == [i \in DOMAIN list |-> f(list[i])]

Every(list) == \A i \in DOMAIN list : list[i].passed

EvalInit ==
  /\ argSession \in EvalSessions
  /\ argRule \in EvalRules
  /\ outcome = NotCalled
  /\ variant = "none"
  /\ sessions = <<>>
  /\ rules = <<>>
  /\ newRule = InitialNewRule
  /\ betweenValues = InitialBetweenValues
  /\ selectedDateRange = NoDateRange
  /\ selectedSessions = <<>>
  /\ selectedRule = NoRule
  /\ isRuleFormOpen = FALSE
  /\ dateRange = NoDateRange
  /\ validationResults = <<>>
  /\ isValidating = FALSE
  /\ lastRun = NoRun
  /\ pendingRun = NoPendingRun
  /\ ContextInit

\* validateRule(argSession, argRule)
Evaluate ==
  /\ ~outcome.called
  /\ outcome' = [called |-> TRUE] @@ validateRule(argSession, argRule)
  /\ UNCHANGED <<argSession, argRule>>
  /\ UNCHANGED pageVars

SpecEval == EvalInit /\ [][Evaluate]_vars

\* ------------------------------------------------------------------------
\* Properties of validateRule
\* ------------------------------------------------------------------------
\* the attribute a field reads has no value in the session
SessionLacks(session, field) ==
  CASE field \in DOMAIN FlatAlias -> IsNullish(Prop(session, FlatAlias[field]))
    [] field \in DOMAIN NestedAlias -> IsNullish(OptChain(session, NestedAlias[field]))
    [] field = "battery.drain" ->
         IsNullish(Prop(session, "firstBat")) \/ IsNullish(Prop(session, "lastBat"))
    [] field = "device.androidVersion" ->
         IsNullish(OptChain(session, <<"device", "androidVersionRelease">>))
    [] field = "session.isActive" -> IsNullish(Prop(session, "isActive"))
    [] field = "session.isCharging" -> IsNullish(Prop(session, "isCharging"))
    [] OTHER -> IsNullish(getNestedProperty(session, field))

Returned(x) == outcome.called /\ ~outcome.throws /\ outcome.value = x

\* C1: a rule of any of the four kinds whose condition is not an existence
\* condition returns false on a session that lacks the rule's field.
C1_MissingFieldFails ==
  ( /\ outcome.called
    /\ argRule.operator \in Operators
    /\ argRule.condition \notin ExistenceConditions
    /\ SessionLacks(argSession, argRule.field) )
  => Returned(FALSE)

\* C2: whatever the kind of the rule, condition 'exists' passes exactly when
\* the resolved field value is neither null nor undefined.
C2_ExistsIffPresent ==
  ( /\ outcome.called
    /\ argRule.operator \in Operators
    /\ argRule.condition = "exists" )
  => Returned(~IsNullish(getFieldValue(argSession, argRule.field)))

\* C3: of the two rules that differ only in condition, 'exists' against
\* 'notExists', exactly one passes.
C3_ExistenceDuality ==
  ( /\ outcome.called
    /\ argRule.operator \in Operators
    /\ argRule.condition = "exists" )
  => LET other == validateRule(argSession, [argRule EXCEPT !.condition = "notExists"])
     IN /\ ~outcome.throws
        /\ ~other.throws
        /\ outcome.value # other.value

IsNumberPair(v) == v.t = "array" /\ Len(v.a) = 2 /\ v.a[1].t = "number" /\ v.a[2].t = "number"

\* C4: a number rule 'between' [a, b] passes on a numeric field value x
\* exactly when a <= x <= b.
C4_BetweenInclusive ==
  LET x == getFieldValue(argSession, argRule.field)
  IN ( /\ outcome.called
       /\ argRule.operator = "number"
       /\ argRule.condition = "between"
       /\ IsNumberPair(argRule.value)
       /\ x.t = "number" )
     => Returned(argRule.value.a[1].n <= x.n /\ x.n <= argRule.value.a[2].n)

\* C5: validateRule returns a boolean for every session and every rule,
\* malformed rules included; no exception escapes.
C5_NeverThrows == outcome.called => ~outcome.throws

\* C13: a string rule with condition 'matches' whose value is not a valid
\* regular expression returns false on every session and raises nothing.
C13_RegexSafety ==
  ( /\ outcome.called
    /\ argRule.operator = "string"
    /\ argRule.condition = "matches"
    /\ ~RegExpCompiles(ToStringJS(argRule.value)) )
  => Returned(FALSE)

\* the pattern '(' was tried against a session that has the field
C13_Witness ==
  /\ Returned(FALSE)
  /\ argRule.operator = "string"
  /\ argRule.condition = "matches"
  /\ argRule.value = Str("(")
  /\ ~IsNullish(getFieldValue(argSession, argRule.field))

\* C14: a boolean rule on session.isActive passes with 'isTrue' exactly
\* when the session's flag is true, and with 'isFalse' exactly when the
\* flag is present and false.
C14_BooleanFlag ==
  LET flag == Prop(argSession, "isActive")
  IN ( /\ outcome.called
       /\ argRule.operator = "boolean"
       /\ argRule.field = "session.isActive"
       /\ argRule.condition \in {"isTrue", "isFalse"}
       /\ flag.t = "boolean" \/ IsNullish(flag) )
     => IF argRule.condition = "isTrue" THEN Returned(flag = Bool(TRUE))
        ELSE Returned(flag = Bool(FALSE))

\* C18: a number rule with the legacy condition 'not_null' passes exactly
\* when the resolved field value is neither null nor undefined.
C18_LegacyNotNull ==
  ( /\ outcome.called
    /\ argRule.operator = "number"
    /\ argRule.condition = "not_null" )
  => Returned(~IsNullish(getFieldValue(argSession, argRule.field)))

\* C20: a date rule 'between' [startDate, endDate] with two dates that
\* parse passes on a field value that parses to the time t exactly when
\* start <= t <= end.
C20_DateBetweenInclusive ==
  LET t == DateTime(getFieldValue(argSession, argRule.field))
      bounds == argRule.value
  IN ( /\ outcome.called
       /\ argRule.operator = "date"
       /\ argRule.condition = "between"
       /\ bounds.t = "array" /\ Len(bounds.a) = 2
       /\ bounds.a[1].t = "string" /\ ~IsNaN(DateParse(bounds.a[1].s))
       /\ bounds.a[2].t = "string" /\ ~IsNaN(DateParse(bounds.a[2].s))
       /\ ~IsNullish(getFieldValue(argSession, argRule.field))
       /\ ~IsNaN(t) )
     => Returned(DateParse(bounds.a[1].s).n <= t.n /\ t.n <= DateParse(bounds.a[2].s).n)

\* ------------------------------------------------------------------------
\* Resolving one field and listing the conditions of one kind: the inputs
\* of getFieldValue and getConditionsForOperator
\* ------------------------------------------------------------------------
\* paths that no case of getFieldValue names, each with the keys it
\* consists of ('' is the empty path)
GenericPaths ==
  ( "" :> <<>> @@ "id" :> <<"id">> @@ "metrics" :> <<"metrics">>
 @@ "unknown" :> <<"unknown">>
 @@ "metrics.fps.avg" :> <<"metrics", "fps", "avg">>
 @@ "metrics.fps.flag" :> <<"metrics", "fps", "flag">>
 @@ "metrics.fps.label" :> <<"metrics", "fps", "label">>
 @@ "metrics.fps.none" :> <<"metrics", "fps", "none">>
 @@ "metrics.gpu.avg" :> <<"metrics", "gpu", "avg">>
 @@ "metrics.fps.avg.unit" :> <<"metrics", "fps", "avg", "unit">>
 @@ "user.email" :> <<"user", "email">>
 @@ "user.email.domain" :> <<"user", "email", "domain">> )

\* a session with a null object, a null leaf and falsy leaves
TraversalSession ==
  Obj("id" :> Str("s-3") @@ "user" :> Null
   @@ "metrics" :> Obj("fps" :> Obj("avg" :> Num(0) @@ "flag" :> Bool(FALSE)
                                     @@ "label" :> Str("") @@ "none" :> Null)))

\* sessions that carry one value under every flat attribute an alias
\* reads and another under lastBat, and three nested sessions; a dotted
\* alias, a flat attribute name, the derived battery.drain, the field of
\* a default rule or a generic path as the field; any kind
ResolveInit ==
  LET ResolveValues ==
        {Undef, Null, Num(0), Num(5), Num(80), Bool(TRUE), Bool(FALSE), Str("")}
      FlatNames == Range(FlatAlias) \cup {"isActive", "isCharging"}
      ResolveSessions ==
        { Obj([k \in FlatNames |-> IF k = "lastBat" THEN b ELSE a]) :
            a \in ResolveValues, b \in ResolveValues }
          \cup {SessionOne, SessionTwo, TraversalSession}
      ResolveFields ==
        DOMAIN FlatAlias \cup FlatNames
          \cup {"session.isActive", "session.isCharging", "battery.drain"}
          \cup {getDefaultRules[i].field : i \in DOMAIN getDefaultRules}
          \cup DOMAIN GenericPaths
  IN /\ argSession \in ResolveSessions
     /\ argRule \in { [id |-> "r", name |-> "probe", field |-> f, operator |-> op,
                        condition |-> "exists", value |-> Num(0), enabled |-> TRUE] :
                        f \in ResolveFields, op \in Operators \cup {"text"} }
     /\ outcome = NotCalled
     /\ variant = "none"
     /\ sessions = <<>>
     /\ rules = <<>>
     /\ newRule = InitialNewRule
     /\ betweenValues = InitialBetweenValues
     /\ selectedDateRange = NoDateRange
     /\ selectedSessions = <<>>
     /\ selectedRule = NoRule
     /\ isRuleFormOpen = FALSE
     /\ dateRange = NoDateRange
     /\ validationResults = <<>>
     /\ isValidating = FALSE
     /\ lastRun = NoRun
     /\ pendingRun = NoPendingRun
     /\ ContextInit

\* getFieldValue(argSession, argRule.field)
Resolve ==
  /\ ~outcome.called
  /\ outcome' = [called |-> TRUE, throws |-> FALSE, of |-> "getFieldValue",
                 value |-> getFieldValue(argSession, argRule.field)]
  /\ UNCHANGED <<argSession, argRule>>
  /\ UNCHANGED pageVars

\* getConditionsForOperator(argRule.operator)
ListConditions ==
  /\ ~outcome.called
  /\ outcome' = [called |-> TRUE, throws |-> FALSE, of |-> "getConditionsForOperator",
                 value |-> getConditionsForOperator(argRule.operator)]
  /\ UNCHANGED <<argSession, argRule>>
  /\ UNCHANGED pageVars

\* getOperatorForField(argRule.field)
Classify ==
  /\ ~outcome.called
  /\ outcome' = [called |-> TRUE, throws |-> FALSE, of |-> "getOperatorForField",
                 value |-> getOperatorForField(argRule.field)]
  /\ UNCHANGED <<argSession, argRule>>
  /\ UNCHANGED pageVars

SpecResolve == ResolveInit /\ [][Resolve \/ ListConditions \/ Classify]_vars

\* ------------------------------------------------------------------------
\* Properties of getFieldValue and getConditionsForOperator
\* ------------------------------------------------------------------------
Resolved == outcome.called /\ outcome.of = "getFieldValue"

\* the dotted aliases that read one flat attribute
SingleAttributeAlias ==
  FlatAlias @@ "session.isActive" :> "isActive" @@ "session.isCharging" :> "isCharging"

Listed == outcome.called /\ outcome.of = "getConditionsForOperator"

\* C17: getConditionsForOperator returns, in this order, for number
\* > >= < <= == != between exists notExists, for string equals notEquals
\* contains notContains startsWith endsWith isEmpty isNotEmpty matches exists
\* notExists, for boolean isTrue isFalse equals exists notExists, for date
\* before after on between exists notExists, and the empty list otherwise.
C17_ConditionVocabulary ==
  Listed =>
    outcome.value =
      CASE argRule.operator = "number" ->
             <<">", ">=", "<", "<=", "==", "!=", "between", "exists", "notExists">>
        [] argRule.operator = "string" ->
             <<"equals", "notEquals", "contains", "notContains", "startsWith", "endsWith",
               "isEmpty", "isNotEmpty", "matches", "exists", "notExists">>
        [] argRule.operator = "boolean" ->
             <<"isTrue", "isFalse", "equals", "exists", "notExists">>
        [] argRule.operator = "date" ->
             <<"before", "after", "on", "between", "exists", "notExists">>
        [] OTHER -> <<>>

\* C17 (amended): as C17, but the string list has 'matches' before
\* 'isEmpty': equals notEquals contains notContains startsWith endsWith
\* matches isEmpty isNotEmpty exists notExists.
C17_ConditionVocabularyMatchesFirst ==
  Listed =>
    LET listed == outcome.value
        kind == argRule.operator
    IN /\ kind = "number" =>
            listed = <<">", ">=", "<", "<=", "==", "!=", "between", "exists", "notExists">>
       /\ kind = "string" =>
            listed = <<"equals", "notEquals", "contains", "notContains", "startsWith",
                       "endsWith", "matches", "isEmpty", "isNotEmpty", "exists", "notExists">>
       /\ kind = "boolean" => listed = <<"isTrue", "isFalse", "equals", "exists", "notExists">>
       /\ kind = "date" =>
            listed = <<"before", "after", "on", "between", "exists", "notExists">>
       /\ kind \notin Operators => listed = <<>>

\* the conditions of the string kind were listed
C17_Witness == Listed /\ argRule.operator = "string" /\ Len(outcome.value) = 11

\* C19: battery.drain resolves to firstBat - lastBat when both are numbers,
\* 0 included, and to null exactly when one of the two is absent.
C19_BatteryDrain ==
  LET firstBat == Prop(argSession, "firstBat")
      lastBat == Prop(argSession, "lastBat")
  IN (Resolved /\ argRule.field = "battery.drain") =>
       /\ (firstBat.t = "number" /\ lastBat.t = "number")
            => outcome.value = Num(firstBat.n - lastBat.n)
       /\ (outcome.value = Null) <=> (IsNullish(firstBat) \/ IsNullish(lastBat))

\* C24: for a path that no case of getFieldValue names, the result is
\* missing (null or undefined) when the path is empty, when a value on the
\* way is null or undefined, or when the last key is absent; otherwise it
\* is the value under the last key, unchanged; and the call does not throw.
C24_GenericTraversal ==
  (Resolved /\ argRule.field \in DOMAIN GenericPaths) =>
    LET keys == GenericPaths[argRule.field]
        ValueAt[i \in 0..Len(keys)] ==
          IF i = 0 THEN argSession ELSE Prop(ValueAt[i - 1], keys[i])
        broken == \E i \in 1..(Len(keys) - 1) : IsNullish(ValueAt[i])
    IN /\ ~outcome.throws
       /\ IF keys = <<>> \/ broken \/ ValueAt[Len(keys)] = Undef
          THEN IsNullish(outcome.value)
          ELSE outcome.value = ValueAt[Len(keys)]

\* a three-key path was walked down to a falsy leaf, which came back as it is
C24_Witness ==
  /\ Resolved
  /\ argSession = TraversalSession
  /\ argRule.field = "metrics.fps.flag"
  /\ outcome.value = Bool(FALSE)

\* C29: for the field of every default rule, getOperatorForField gives the
\* operator that the default rule is stored with.
C29_HeuristicAgreesWithDefaults ==
  (outcome.called /\ outcome.of = "getOperatorForField") =>
    \A i \in DOMAIN getDefaultRules :
      getDefaultRules[i].field = argRule.field => outcome.value = getDefaultRules[i].operator

\* ------------------------------------------------------------------------
\* Validation page (the version that calls validateRule)
\* ------------------------------------------------------------------------
PageInit(v, initialRules) ==
  /\ argSession = Obj(<<>>)
  /\ argRule = Rule("r", "probe", "fps.min", "number", ">=", Num(0))
  /\ outcome = NotCalled
  /\ variant = v
  /\ sessions = <<>>
  /\ rules = initialRules
  /\ newRule = InitialNewRule
  /\ betweenValues = InitialBetweenValues
  /\ selectedDateRange = NoDateRange
  /\ selectedSessions = <<>>
  /\ selectedRule = NoRule
  /\ isRuleFormOpen = FALSE
  /\ dateRange = NoDateRange
  /\ validationResults = <<>>
  /\ isValidating = FALSE
  /\ lastRun = NoRun
  /\ pendingRun = NoPendingRun
  /\ ContextInit

\* SessionContext: a fetch ends with setSessions(mappedSessions), or with
\* setSessions([]) after an error
FetchSessions ==
  /\ variant \in {"Validation", "ValidationPage"}
  /\ \E list \in SessionLists : sessions' = list
  /\ UNCHANGED <<variant, contextVars, rules, formVars, selectedSessions, validationResults,
                 isValidating, lastRun>>
  /\ UNCHANGED evalVars
  /\ UNCHANGED ruleFormVars
  /\ UNCHANGED pendingRun

toggleSessionSelection ==
  /\ variant = "Validation"
  /\ \E sessionId \in Ids(sessions) :
       selectedSessions' =
         IF \E i \in DOMAIN selectedSessions : selectedSessions[i] = sessionId
         THEN SelectSeq(selectedSessions, LAMBDA id : id # sessionId)
         ELSE Append(selectedSessions, sessionId)
  /\ UNCHANGED <<variant, contextVars, sessions, rules, formVars, validationResults, isValidating, lastRun>>
  /\ UNCHANGED evalVars
  /\ UNCHANGED ruleFormVars
  /\ UNCHANGED pendingRun

\* the Switch of a rule row passes the new checked state
toggleRuleStatus ==
  /\ variant = "Validation"
  /\ \E row \in EditableRows \cap DOMAIN rules :
       LET id == rules[row].id
           enabled == ~rules[row].enabled
       IN rules' = Map(LAMBDA rule : IF rule.id = id THEN [rule EXCEPT !.enabled = enabled]
                                     ELSE rule, rules)
  /\ UNCHANGED <<variant, contextVars, sessions, formVars, selectedSessions, validationResults,
                 isValidating, lastRun>>
  /\ UNCHANGED evalVars
  /\ UNCHANGED ruleFormVars
  /\ UNCHANGED pendingRun

deleteRule ==
  /\ variant = "Validation"
  /\ \E row \in EditableRows \cap DOMAIN rules :
       LET id == rules[row].id
       IN rules' = SelectSeq(rules, LAMBDA rule : rule.id # id)
  /\ UNCHANGED <<variant, contextVars, sessions, formVars, selectedSessions, validationResults,
                 isValidating, lastRun>>
  /\ UNCHANGED evalVars
  /\ UNCHANGED ruleFormVars
  /\ UNCHANGED pendingRun

\* onChange of the name input
setNewRuleName ==
  /\ variant = "Validation"
  /\ \E name \in FormNames : newRule' = [newRule EXCEPT !.name = name]
  /\ newRule' # newRule
  /\ UNCHANGED <<variant, contextVars, sessions, rules, betweenValues, selectedDateRange,
                 selectedSessions, validationResults, isValidating, lastRun>>
  /\ UNCHANGED evalVars
  /\ UNCHANGED ruleFormVars
  /\ UNCHANGED pendingRun

\* the entries of a rule list whose id is one of ids
CountIds(list, ids) == Cardinality({i \in DOMAIN list : list[i].id \in ids})

\* the form without the operator effect
OperatorEffect_none(before, after) == after

\* the operator effect: when a render changes newRule.operator, the
\* condition becomes the first condition of the new operator
OperatorEffect(before, after) ==
  IF after.operator = before.operator THEN after
  ELSE LET newConditions == getConditionsForOperator(after.operator)
       IN [after EXCEPT !.condition = IF Len(newConditions) > 0 THEN newConditions[1] ELSE ">"]

\* selectedDateRange.from.toISOString() for the days DateParse reads
ToISOString(k) ==
  LET day == (k \div DayMs) + 1
  IN "1970-01-" \o (IF day < 10 THEN "0" ELSE "") \o NatToString(day) \o "T12:00:00.000Z"

addRule ==
  /\ variant = "Validation"
  /\ CountIds(rules, NowValues) < MaxAdded
  /\ \E now \in NowValues :
       LET rejected ==
             \/ ~Truthy(Str(newRule.name))
             \/ /\ newRule.condition = "between"
                /\ newRule.operator = "date"
                /\ (~Truthy(selectedDateRange.from) \/ ~Truthy(selectedDateRange.to))
           ruleValue ==
             IF newRule.condition = "between" /\ newRule.operator = "number"
             THEN Arr(<<ToNumber(betweenValues.min), ToNumber(betweenValues.max)>>)
             ELSE IF newRule.condition = "between" /\ newRule.operator = "date"
             THEN Arr(<<Str(ToISOString(selectedDateRange.from.n)),
                        Str(ToISOString(selectedDateRange.to.n))>>)
             ELSE newRule.value
       IN IF rejected
          THEN UNCHANGED <<rules, formVars>>
          ELSE /\ rules' = Append(rules, [newRule EXCEPT !.value = ruleValue] @@ [id |-> now])
               /\ newRule' = OperatorEffect(newRule, ResetNewRule)
               /\ betweenValues' = InitialBetweenValues
               /\ selectedDateRange' = NoDateRange
  /\ UNCHANGED <<variant, contextVars, sessions, selectedSessions, validationResults, isValidating, lastRun>>
  /\ UNCHANGED evalVars
  /\ UNCHANGED ruleFormVars
  /\ UNCHANGED pendingRun

\* history of a published run: the session ids it was given, the ids of
\* the rules that were enabled, and the ids the session list knew
RunOf(sessionIds, ruleList, sessionList) ==
  [published |-> TRUE, sessionIds |-> sessionIds,
   ruleIds |-> Map(LAMBDA r : r.id, Enabled(ruleList)),
   known |-> Ids(sessionList)]

\* one entry of ruleResults
RuleResult(session, rule) ==
  [ruleId |-> rule.id, ruleName |-> rule.name,
   passed |-> validateRule(session, rule).value,
   field |-> rule.field, operator |-> rule.operator,
   expectedCondition |-> rule.condition, expectedValue |-> rule.value,
   actualValue |-> JsOr(Prop(session, rule.field), getNestedProperty(session, rule.field))]

\* the result of a session that was found: ruleResults and the verdict
FoundResult(sessionId, session, ruleList) ==
  LET ruleResults == Map(LAMBDA rule : RuleResult(session, rule), Enabled(ruleList))
  IN [sessionId |-> sessionId,
      appName |-> JsOr(OptChain(session, <<"app", "name">>), Str("Unknown")),
      deviceModel |-> JsOr(OptChain(session, <<"device", "model">>), Str("Unknown")),
      rules |-> ruleResults,
      overallResult |-> IF Every(ruleResults) THEN "pass" ELSE "fail"]

\* the placeholder as it would be if the id that was not found got the
\* verdict of an empty rules list
MissingResult_vacuous(sessionId) ==
  [sessionId |-> sessionId, appName |-> Str("Unknown"), deviceModel |-> Str("Unknown"),
   rules |-> <<>>, overallResult |-> "pass"]

\* the result of a selected id that sessions.find does not find
MissingResult(sessionId) ==
  [sessionId |-> sessionId, appName |-> Str("Unknown"), deviceModel |-> Str("Unknown"),
   rules |-> <<>>, overallResult |-> "fail"]

\* the callback of selectedSessions.map
SessionResult(sessionId, sessionList, ruleList) ==
  IF ~HasSession(sessionList, sessionId)
  THEN MissingResult(sessionId)
  ELSE FoundResult(sessionId, FindSession(sessionList, sessionId), ruleList)

validateSessions ==
  /\ variant = "Validation"
  /\ IF Len(selectedSessions) = 0 \/ Len(Enabled(rules)) = 0
     THEN UNCHANGED <<validationResults, isValidating, lastRun>>
     ELSE IF \E i \in DOMAIN selectedSessions : \E j \in DOMAIN rules :
               /\ HasSession(sessions, selectedSessions[i])
               /\ rules[j].enabled
               /\ validateRule(FindSession(sessions, selectedSessions[i]), rules[j]).throws
     THEN isValidating' = TRUE /\ UNCHANGED <<validationResults, lastRun>>
     ELSE /\ validationResults' =
               Map(LAMBDA sessionId : SessionResult(sessionId, sessions, rules), selectedSessions)
          /\ isValidating' = FALSE
          /\ lastRun' = RunOf(selectedSessions, rules, sessions)
  /\ UNCHANGED <<variant, contextVars, sessions, rules, formVars, selectedSessions>>
  /\ UNCHANGED evalVars
  /\ UNCHANGED ruleFormVars
  /\ UNCHANGED pendingRun

ValidationInit == PageInit("Validation", getDefaultRules)

ValidationNext ==
  \/ FetchSessions
  \/ toggleSessionSelection
  \/ toggleRuleStatus
  \/ deleteRule
  \/ setNewRuleName
  \/ addRule
  \/ validateSessions

SpecValidation == ValidationInit /\ [][ValidationNext]_vars

\* ------------------------------------------------------------------------
\* ValidationPage (rule list with a rule form, run over the date range)
\* ------------------------------------------------------------------------
\* Math.random().toString(36).substring(7)
RandomIds == {"k3j9x"}

\* the date ranges the calendar can hand to setDateRange
DateRanges == {NoDateRange, [from |-> Num(0), to |-> Num(5 * DayMs)]}

AsSelected(rule) == rule @@ [isNull |-> FALSE]

AsRule(sel) == [k \in DOMAIN sel \ {"isNull"} |-> sel[k]]

\* what the rule form submits: the opened rule as the form holds it, or a
\* new rule with the form defaults and the id ''
SubmittedRules(sel) ==
  IF sel.isNull
  THEN {Rule("", "Custom rule", "fps.min", "number", ">=", Num(0))}
  ELSE {AsRule(sel)}

pageUnchanged == <<variant, contextVars, sessions, formVars, selectedSessions, isValidating>>

handleRuleClick ==
  /\ variant = "ValidationPage"
  /\ \E row \in EditableRows \cap DOMAIN rules :
       /\ selectedRule' = AsSelected(rules[row])
       /\ isRuleFormOpen' = TRUE
  /\ UNCHANGED <<pageUnchanged, rules, dateRange, validationResults, lastRun, evalVars>>
  /\ UNCHANGED pendingRun

handleAddRule ==
  /\ variant = "ValidationPage"
  /\ selectedRule' = NoRule
  /\ isRuleFormOpen' = TRUE
  /\ UNCHANGED <<pageUnchanged, rules, dateRange, validationResults, lastRun, evalVars>>
  /\ UNCHANGED pendingRun

handleSaveRule ==
  /\ variant = "ValidationPage"
  /\ isRuleFormOpen
  /\ \E submitted \in SubmittedRules(selectedRule) : \E newId \in RandomIds :
       IF Truthy(Str(submitted.id))
       THEN rules' = Map(LAMBDA rule : IF rule.id = submitted.id THEN submitted ELSE rule, rules)
       ELSE /\ CountIds(rules, RandomIds) < MaxAdded
            /\ rules' = Append(rules, [submitted EXCEPT !.id = newId])
  /\ isRuleFormOpen' = FALSE
  /\ selectedRule' = NoRule
  /\ UNCHANGED <<pageUnchanged, dateRange, validationResults, lastRun, evalVars>>
  /\ UNCHANGED pendingRun

\* the Delete button of the rule form, confirmed in the dialog
handleDeleteRule ==
  /\ variant = "ValidationPage"
  /\ isRuleFormOpen
  /\ IF ~selectedRule.isNull
     THEN /\ rules' = SelectSeq(rules, LAMBDA rule : rule.id # selectedRule.id)
          /\ isRuleFormOpen' = FALSE
          /\ selectedRule' = NoRule
     ELSE UNCHANGED <<rules, isRuleFormOpen, selectedRule>>
  /\ UNCHANGED <<pageUnchanged, dateRange, validationResults, lastRun, evalVars>>
  /\ UNCHANGED pendingRun

handleToggleRule ==
  /\ variant = "ValidationPage"
  /\ \E row \in EditableRows \cap DOMAIN rules :
       LET ruleId == rules[row].id
       IN rules' = Map(LAMBDA rule : IF rule.id = ruleId
                                     THEN [rule EXCEPT !.enabled = ~rule.enabled]
                                     ELSE rule, rules)
  /\ UNCHANGED <<pageUnchanged, selectedRule, isRuleFormOpen, dateRange, validationResults,
                 lastRun, evalVars>>
  /\ UNCHANGED pendingRun

\* isAllRulesEnabled as the effect on [rules] keeps it
isAllRulesEnabled == \A i \in DOMAIN rules : rules[i].enabled

handleEnableAllRules ==
  /\ variant = "ValidationPage"
  /\ rules' = Map(LAMBDA rule : [rule EXCEPT !.enabled = ~isAllRulesEnabled], rules)
  /\ UNCHANGED <<pageUnchanged, selectedRule, isRuleFormOpen, dateRange, validationResults,
                 lastRun, evalVars>>
  /\ UNCHANGED pendingRun

setDateRange ==
  /\ variant = "ValidationPage"
  /\ \E range \in DateRanges : dateRange' = range
  /\ dateRange' # dateRange
  /\ UNCHANGED <<pageUnchanged, rules, selectedRule, isRuleFormOpen, validationResults,
                 lastRun, evalVars>>
  /\ UNCHANGED pendingRun

\* sessions.filter(...) of handleRunValidation
FilteredSessions(sessionList, range) ==
  LET InDateRange(session) ==
        IF ~Truthy(range.from) \/ ~Truthy(range.to) THEN TRUE
        ELSE LET sessionDate == DateTime(Prop(session, "startTime"))
             IN JsGe(sessionDate, range.from) /\ JsLe(sessionDate, range.to)
  IN SelectSeq(sessionList, InDateRange)

\* one entry of ruleResults in handleRunValidation
PageRuleResult(session, rule) ==
  [ruleId |-> rule.id, ruleName |-> rule.name,
   passed |-> IF rule.enabled THEN validateRule(session, rule).value ELSE TRUE,
   field |-> rule.field, operator |-> rule.operator,
   expectedCondition |-> rule.condition, expectedValue |-> rule.value,
   actualValue |-> Prop(session, rule.field)]

\* the callback of filteredSessions.map
PageSessionResult(session, ruleList) ==
  LET ruleResults == Map(LAMBDA rule : PageRuleResult(session, rule), ruleList)
  IN [sessionId |-> IdOf(session),
      appName |-> Prop(session, "appName"),
      deviceModel |-> Prop(session, "deviceModel"),
      rules |-> ruleResults,
      overallResult |-> IF Every(ruleResults) THEN "pass" ELSE "fail"]

handleRunValidation ==
  /\ variant = "ValidationPage"
  /\ LET filteredSessions == FilteredSessions(sessions, dateRange)
         throws == \E i \in DOMAIN filteredSessions : \E j \in DOMAIN rules :
                     rules[j].enabled /\ validateRule(filteredSessions[i], rules[j]).throws
     IN IF Len(sessions) = 0 \/ Len(filteredSessions) = 0 \/ throws
        THEN UNCHANGED <<validationResults, lastRun>>
        ELSE /\ validationResults' =
                  Map(LAMBDA session : PageSessionResult(session, rules), filteredSessions)
             /\ lastRun' = RunOf(Map(IdOf, filteredSessions), rules, sessions)
  /\ UNCHANGED <<pageUnchanged, rules, selectedRule, isRuleFormOpen, dateRange, evalVars>>
  /\ UNCHANGED pendingRun

ValidationPageInit == PageInit("ValidationPage", getDefaultRules)

ValidationPageNext ==
  \/ FetchSessions
  \/ handleRuleClick
  \/ handleAddRule
  \/ handleSaveRule
  \/ handleDeleteRule
  \/ handleToggleRule
  \/ handleEnableAllRules
  \/ setDateRange
  \/ handleRunValidation

SpecValidationPage == ValidationPageInit /\ [][ValidationPageNext]_vars

\* ------------------------------------------------------------------------
\* Validation page: editing the new-rule form
\* ------------------------------------------------------------------------
\* the fields picked in the metric select, one of each kind
FormFields == {"fps.min", "device.model", "session.date", "session.isActive"}

\* the conditions picked in the condition select
FormConditions == {"between", "equals"}

\* rules added in one behaviour of the form
MaxFormAdded == 1

formUnchanged ==
  <<variant, contextVars, sessions, rules, selectedSessions, validationResults, isValidating, lastRun,
    evalVars, ruleFormVars, pendingRun>>

\* onValueChange of the metric select, then the operator effect
handleFieldChange ==
  /\ variant = "Validation"
  /\ \E fieldValue \in FormFields :
       LET operator == getOperatorForField(fieldValue)
       IN newRule' = OperatorEffect(newRule, [newRule EXCEPT !.field = fieldValue,
                                                             !.operator = operator])
  /\ newRule' # newRule
  /\ UNCHANGED <<formUnchanged, betweenValues, selectedDateRange>>

\* onValueChange of the condition select, which offers the conditions state
setCondition ==
  /\ variant = "Validation"
  /\ \E value \in Range(getConditionsForOperator(newRule.operator)) \cap FormConditions :
       newRule' = [newRule EXCEPT !.condition = value]
  /\ newRule' # newRule
  /\ UNCHANGED <<formUnchanged, betweenValues, selectedDateRange>>

\* the value control that is rendered for the condition and the operator:
\* none for 'between' and the conditions without a value, else the
\* true/false select, the calendar, or the number or text input
setValue ==
  /\ variant = "Validation"
  /\ newRule.condition \notin
       {"between", "exists", "notExists", "isEmpty", "isNotEmpty", "isTrue", "isFalse"}
  /\ \E value \in
         CASE newRule.operator = "boolean" -> {Bool(TRUE)}
           [] newRule.operator = "date" -> {Str(ToISOString(2 * DayMs))}
           [] newRule.operator = "number" -> {ParseFloat(Str(""))}
           [] OTHER -> {Str("abc")} :
       newRule' = [newRule EXCEPT !.value = value]
  /\ newRule' # newRule
  /\ UNCHANGED <<formUnchanged, betweenValues, selectedDateRange>>

\* onChange of the Min input of 'between': the text of the input is kept
setBetweenValues ==
  /\ variant = "Validation"
  /\ newRule.condition = "between"
  /\ newRule.operator # "date"
  /\ betweenValues' = [betweenValues EXCEPT !.min = Str("7")]
  /\ betweenValues' # betweenValues
  /\ UNCHANGED <<formUnchanged, newRule, selectedDateRange>>

\* onSelect of the range calendar of 'between'
setSelectedDateRange ==
  /\ variant = "Validation"
  /\ newRule.condition = "between"
  /\ newRule.operator = "date"
  /\ \E range \in DateRanges : selectedDateRange' = range
  /\ selectedDateRange' # selectedDateRange
  /\ UNCHANGED <<formUnchanged, newRule, betweenValues>>

Form_addRule ==
  /\ CountIds(rules, NowValues) < MaxFormAdded
  /\ addRule

ValidationFormNext ==
  \/ setNewRuleName
  \/ handleFieldChange
  \/ setCondition
  \/ setValue
  \/ setBetweenValues
  \/ setSelectedDateRange
  \/ Form_addRule

SpecValidationForm == ValidationInit /\ [][ValidationFormNext]_vars

\* ------------------------------------------------------------------------
\* ValidationProvider (saved sessions, rules with property / active)
\* ------------------------------------------------------------------------
ProviderRule(id, name, property, condition, value, active) ==
  [id |-> id, name |-> name, property |-> property, condition |-> condition,
   value |-> value, active |-> active]

defaultRules ==
  << ProviderRule("rule-1", "Positive FPS", "metrics.fps.avg", "greaterThan", Num(0), TRUE),
     ProviderRule("rule-2", "FPS Stability", "metrics.fps.stability", "greaterThan", Num(80),
                  TRUE) >>

\* the rules a caller hands to createRule
CreatedRules ==
  { [name |-> "CPU limit", property |-> "metrics.cpu.avg", condition |-> "lessThan",
     value |-> Num(80), active |-> TRUE],
    [name |-> "Known app", property |-> "app.name", condition |-> "notContains",
     value |-> Str("Unknown"), active |-> FALSE] }

\* the id lists a caller hands to validateSessions
IdLists == {<<>>, <<"s-1">>, <<"s-2">>, <<"s-1", "s-2">>, <<"s-2", "s-1">>}

Active(list) == SelectSeq(list, LAMBDA r : r.active)

\* x > y and x < y on operands that are not both strings
JsGt(x, y) ==
  LET a == ToNumber(x)
      b == ToNumber(y)
  IN ~IsNaN(a) /\ ~IsNaN(b) /\ a.n > b.n

JsLt(x, y) == JsGt(y, x)

\* x === y on primitives
StrictEquals(x, y) ==
  /\ x.t = y.t
  /\ CASE x.t = "number" -> x.n = y.n
       [] x.t = "string" -> x.s = y.s
       [] x.t = "boolean" -> x.b = y.b
       [] x.t \in {"undefined", "null"} -> TRUE
       [] OTHER -> FALSE

RECURSIVE WalkDefined(_, _)
\* path.split('.').reduce((prev, curr) => prev && prev[curr] !== undefined ? ...)
WalkDefined(prev, keys) ==
  IF keys = <<>> THEN prev
  ELSE WalkDefined(IF Truthy(prev) /\ Prop(prev, keys[1]) # Undef
                   THEN Prop(prev, keys[1]) ELSE Undef, Tail(keys))

getNestedPropertyValue(obj, path) == WalkDefined(obj, Split(path))

\* the verdict of one active rule on one session
ProviderPassed(session, rule) ==
  LET actualValue == getNestedPropertyValue(session, rule.property)
  IN IF actualValue # Undef
     THEN CASE rule.condition = "greaterThan" -> JsGt(actualValue, rule.value)
            [] rule.condition = "lessThan" -> JsLt(actualValue, rule.value)
            [] rule.condition = "equals" -> StrictEquals(actualValue, rule.value)
            [] rule.condition = "notEquals" -> ~StrictEquals(actualValue, rule.value)
            [] rule.condition = "contains" ->
                 Includes(ToStringJS(actualValue), ToStringJS(rule.value))
            [] rule.condition = "notContains" ->
                 ~Includes(ToStringJS(actualValue), ToStringJS(rule.value))
            [] OTHER -> TRUE
     ELSE FALSE

\* what the loop body pushes for a session that was found
ProviderResult(session, ruleList) ==
  LET Failure(rule) ==
        LET actualValue == getNestedPropertyValue(session, rule.property)
        IN [ruleId |-> rule.id, ruleName |-> rule.name, property |-> rule.property,
            expected |-> rule.condition \o " " \o ToStringJS(rule.value),
            actual |-> IF actualValue # Undef THEN actualValue ELSE Str("undefined")]
      failing == SelectSeq(Active(ruleList), LAMBDA rule : ~ProviderPassed(session, rule))
      failures == Map(Failure, failing)
  IN [sessionId |-> IdOf(session),
      appName |-> Prop(Prop(session, "app"), "name"),
      deviceModel |-> Prop(Prop(session, "device"), "model"),
      passed |-> Len(failures) = 0,
      failures |-> failures]

\* every run as one whose callback reads a property of undefined
AppOrDeviceMissing_always(sessionIds, sessionList) == TRUE

\* session.app.name or session.device.model reads a property of undefined
AppOrDeviceMissing(sessionIds, sessionList) ==
  \E i \in DOMAIN sessionIds :
    /\ HasSession(sessionList, sessionIds[i])
    /\ LET session == FindSession(sessionList, sessionIds[i])
       IN IsNullish(Prop(session, "app")) \/ IsNullish(Prop(session, "device"))

\* the for loop over sessionIds: an id that is not saved is skipped
ProviderResults(sessionIds, sessionList, ruleList) ==
  Map(LAMBDA sessionId : ProviderResult(FindSession(sessionList, sessionId), ruleList),
      SelectSeq(sessionIds, LAMBDA sessionId : HasSession(sessionList, sessionId)))

providerUnchanged ==
  <<variant, contextVars, formVars, selectedSessions, ruleFormVars, argSession, argRule, outcome>>

\* the sessions a caller can hand to saveSession
SavableSessions == {SessionOne, SessionTwo}

saveSession ==
  /\ variant = "ValidationProvider"
  /\ \E session \in SavableSessions :
       IF HasSession(sessions, IdOf(session))
       THEN UNCHANGED sessions
       ELSE sessions' = Append(sessions, session)
  /\ UNCHANGED <<providerUnchanged, rules, validationResults, isValidating, lastRun>>
  /\ UNCHANGED pendingRun

removeSavedSession ==
  /\ variant = "ValidationProvider"
  /\ \E sessionId \in Ids(sessions) :
       sessions' = SelectSeq(sessions, LAMBDA session : IdOf(session) # sessionId)
  /\ UNCHANGED <<providerUnchanged, rules, validationResults, isValidating, lastRun>>
  /\ UNCHANGED pendingRun

createRule ==
  /\ variant = "ValidationProvider"
  /\ CountIds(rules, {"rule-" \o now : now \in NowValues}) < MaxAdded
  /\ \E rule \in CreatedRules : \E now \in NowValues :
       rules' = Append(rules, rule @@ [id |-> "rule-" \o now])
  /\ UNCHANGED <<providerUnchanged, sessions, validationResults, isValidating, lastRun>>
  /\ UNCHANGED pendingRun

\* the edits a caller hands to updateRule: a rule of the table with the
\* active flag flipped or another condition
UpdatedRules ==
  UNION { {[rules[row] EXCEPT !.active = ~rules[row].active]} \cup
          {[rules[row] EXCEPT !.condition = c] : c \in {"lessThan", "notEquals"}} :
          row \in EditableRows \cap DOMAIN rules }

updateRule ==
  /\ variant = "ValidationProvider"
  /\ \E updatedRule \in UpdatedRules :
       rules' = Map(LAMBDA rule : IF rule.id = updatedRule.id THEN updatedRule ELSE rule, rules)
  /\ rules' # rules
  /\ UNCHANGED <<providerUnchanged, sessions, validationResults, isValidating, lastRun>>
  /\ UNCHANGED pendingRun

Provider_deleteRule ==
  /\ variant = "ValidationProvider"
  /\ \E row \in EditableRows \cap DOMAIN rules :
       LET ruleId == rules[row].id
       IN rules' = SelectSeq(rules, LAMBDA rule : rule.id # ruleId)
  /\ UNCHANGED <<providerUnchanged, sessions, validationResults, isValidating, lastRun>>
  /\ UNCHANGED pendingRun

\* history of a completed provider run
ProviderRunOf(sessionIds, ruleList, sessionList) ==
  [published |-> TRUE, sessionIds |-> sessionIds,
   ruleIds |-> Map(LAMBDA r : r.id, Active(ruleList)),
   known |-> Ids(sessionList)]

\* the async function has no await: its body runs in one task, and the
\* finally block clears isValidating on every path that set it
Provider_validateSessions ==
  /\ variant = "ValidationProvider"
  /\ \E sessionIds \in IdLists :
       IF Len(Active(rules)) = 0 \/ Len(sessionIds) = 0
       THEN UNCHANGED <<validationResults, isValidating, lastRun>>
       ELSE IF AppOrDeviceMissing(sessionIds, sessions)
       THEN isValidating' = FALSE /\ UNCHANGED <<validationResults, lastRun>>
       ELSE /\ validationResults' = ProviderResults(sessionIds, sessions, rules)
            /\ isValidating' = FALSE
            /\ lastRun' = ProviderRunOf(sessionIds, rules, sessions)
  /\ UNCHANGED <<providerUnchanged, sessions, rules>>
  /\ UNCHANGED pendingRun

clearResults ==
  /\ variant = "ValidationProvider"
  /\ validationResults' = <<>>
  /\ lastRun' = NoRun
  /\ validationResults' # validationResults
  /\ UNCHANGED <<providerUnchanged, sessions, rules, isValidating>>
  /\ UNCHANGED pendingRun

ValidationProviderInit == PageInit("ValidationProvider", defaultRules)

ValidationProviderNext ==
  \/ saveSession
  \/ removeSavedSession
  \/ createRule
  \/ updateRule
  \/ Provider_deleteRule
  \/ Provider_validateSessions
  \/ clearResults

SpecValidationProvider == ValidationProviderInit /\ [][ValidationProviderNext]_vars

\* ------------------------------------------------------------------------
\* ValidationProvider with rule sets (rules holds ruleSets)
\* ------------------------------------------------------------------------
\* defaultRuleSets (names and descriptions are display-only)
defaultRuleSets ==
  << [id |-> "default-ruleset",
      rules |-> << [id |-> "fps-min", key |-> "fps", operator |-> "gt", value |-> 0,
                    enabled |-> TRUE],
                   [id |-> "cpu-max", key |-> "cpu", operator |-> "lt", value |-> 90,
                    enabled |-> TRUE],
                   [id |-> "memory-max", key |-> "memory", operator |-> "lt", value |-> 1000,
                    enabled |-> TRUE] >>] >>

\* the validationResult validateSession builds once the rule set is found;
\* samples holds the metric arrays the session metrics carry
RuleSetResult(sessionMetrics, ruleSet, timestamp) ==
  LET evaluateRule(rule, value) ==
        CASE rule.operator = "gt" -> value > rule.value
          [] rule.operator = "lt" -> value < rule.value
          [] rule.operator = "gte" -> value >= rule.value
          [] rule.operator = "lte" -> value <= rule.value
          [] rule.operator = "eq" -> value = rule.value
          [] rule.operator = "neq" -> value # rule.value
          [] OTHER -> FALSE
      Entry(rule) ==
        IF rule.key \in {"fps", "cpu", "gpu", "memory"}
           /\ rule.key \in DOMAIN sessionMetrics.samples
        THEN LET values == sessionMetrics.samples[rule.key]
                 violatingValues == SelectSeq(values, LAMBDA v : ~evaluateRule(rule, v))
                 pass == Len(violatingValues) = 0
             IN [ruleId |-> rule.id,
                 status |-> IF pass THEN "pass" ELSE "fail",
                 details |-> IF pass THEN ""
                             ELSE "Found " \o NatToString(Len(violatingValues))
                                  \o " values that don't meet the criteria"]
        ELSE [ruleId |-> rule.id, status |-> "fail",
              details |-> "Metric not available for validation"]
      results == Map(Entry, Enabled(ruleSet.rules))
  IN [sessionId |-> sessionMetrics.sessionId,
      ruleSetId |-> ruleSet.id,
      timestamp |-> timestamp,
      overallStatus |-> IF \A i \in DOMAIN results : results[i].status = "pass"
                        THEN "pass" ELSE "fail",
      results |-> results]

\* the session metrics a caller hands to validateSession
MetricsInputs ==
  { [sessionId |-> "s-1", samples |-> ("fps" :> <<60, 55>> @@ "cpu" :> <<40>>
                                        @@ "memory" :> <<500>>)],
    [sessionId |-> "s-2", samples |-> ("fps" :> <<0, 30>> @@ "cpu" :> <<95>>)] }

\* results kept in the stored list in one behaviour
MaxResults == 2

createRuleSet ==
  /\ variant = "RuleSetProvider"
  /\ \E now \in NowValues :
       /\ CountIds(rules, {"ruleset-" \o now}) < MaxAdded
       /\ rules' = Append(rules, [id |-> "ruleset-" \o now,
                                  rules |-> << [id |-> "gpu-max", key |-> "gpu",
                                                operator |-> "lte", value |-> 80,
                                                enabled |-> TRUE] >>])
  /\ UNCHANGED <<providerUnchanged, sessions, pendingRun, validationResults, isValidating, lastRun>>

\* the caller hands over the default rule set with its first rule disabled
updateRuleSet ==
  /\ variant = "RuleSetProvider"
  /\ LET ruleSet == [defaultRuleSets[1] EXCEPT !.rules[1].enabled = FALSE]
     IN rules' = Map(LAMBDA rs : IF rs.id = ruleSet.id THEN ruleSet ELSE rs, rules)
  /\ UNCHANGED <<providerUnchanged, sessions, pendingRun, validationResults, isValidating, lastRun>>

deleteRuleSet ==
  /\ variant = "RuleSetProvider"
  /\ \E i \in DOMAIN rules :
       rules' = SelectSeq(rules, LAMBDA rs : rs.id # rules[i].id)
  /\ UNCHANGED <<providerUnchanged, sessions, pendingRun, validationResults, isValidating, lastRun>>

\* the async function has no await: it runs in one task. A rule set id
\* that is not found throws after setIsValidating(true); finally clears it.
validateSession ==
  /\ variant = "RuleSetProvider"
  /\ Len(validationResults) < MaxResults
  /\ \E sessionMetrics \in MetricsInputs : \E ruleSetId \in {"default-ruleset", "unknown"} :
       IF \A i \in DOMAIN rules : rules[i].id # ruleSetId
       THEN UNCHANGED <<validationResults, lastRun>>
       ELSE LET ruleSet == rules[CHOOSE i \in DOMAIN rules :
                                   /\ rules[i].id = ruleSetId
                                   /\ \A j \in 1..(i - 1) : rules[j].id # ruleSetId]
                timestamp == ToISOString(4 * DayMs)
            IN /\ validationResults' =
                    Append(validationResults, RuleSetResult(sessionMetrics, ruleSet, timestamp))
               /\ lastRun' = [published |-> TRUE, sessionIds |-> <<sessionMetrics.sessionId>>,
                              ruleIds |-> Map(LAMBDA r : r.id, Enabled(ruleSet.rules)),
                              known |-> {sessionMetrics.sessionId}]
  /\ isValidating' = FALSE
  /\ UNCHANGED <<providerUnchanged, sessions, pendingRun, rules>>

\* Promise.all over sessionsMetrics.map(validateSession): every call runs
\* to its end inside the map, so the results are appended in list order;
\* the caller hands over a list that is not empty
validateMultipleSessions ==
  /\ variant = "RuleSetProvider"
  /\ \E sessionsMetrics \in {list \in UNION {[1..n -> MetricsInputs] : n \in 1..2} :
                                 \A i, j \in DOMAIN list : i # j => list[i] # list[j]} :
     \E ruleSetId \in {"default-ruleset", "unknown"} :
       /\ Len(validationResults) + Len(sessionsMetrics) <= MaxResults
       /\ IF \A i \in DOMAIN rules : rules[i].id # ruleSetId
          THEN UNCHANGED <<validationResults, lastRun>>
          ELSE LET ruleSet == rules[CHOOSE i \in DOMAIN rules :
                                      /\ rules[i].id = ruleSetId
                                      /\ \A j \in 1..(i - 1) : rules[j].id # ruleSetId]
                   timestamp == ToISOString(4 * DayMs)
               IN /\ validationResults' =
                       validationResults \o
                         Map(LAMBDA m : RuleSetResult(m, ruleSet, timestamp), sessionsMetrics)
                  /\ lastRun' = [published |-> TRUE,
                                 sessionIds |-> Map(LAMBDA m : m.sessionId, sessionsMetrics),
                                 ruleIds |-> Map(LAMBDA r : r.id, Enabled(ruleSet.rules)),
                                 known |-> {sessionsMetrics[i].sessionId :
                                              i \in DOMAIN sessionsMetrics}]
  /\ isValidating' = FALSE
  /\ UNCHANGED <<providerUnchanged, sessions, pendingRun, rules>>

clearValidationResults ==
  /\ variant = "RuleSetProvider"
  /\ validationResults' = <<>>
  /\ lastRun' = NoRun
  /\ validationResults' # validationResults
  /\ UNCHANGED <<providerUnchanged, sessions, pendingRun, rules, isValidating>>

SpecRuleSetProvider ==
  /\ PageInit("RuleSetProvider", defaultRuleSets)
  /\ [][createRuleSet \/ updateRuleSet \/ deleteRuleSet \/ validateSession
         \/ validateMultipleSessions \/ clearValidationResults]_vars

\* ------------------------------------------------------------------------
\* AuthProvider and SessionProvider (AuthContext.tsx, SessionContext.tsx)
\* ------------------------------------------------------------------------
\* what the credentials form hands to saveCredentials
Credentials ==
  {[apiToken |-> "", username |-> ""], [apiToken |-> "token", username |-> "user"]}

\* calls that await the server at one time
MaxRequests == 2

contextUnchanged ==
  <<variant, evalVars, rules, formVars, selectedSessions, ruleFormVars, validationResults,
    lastRun, pendingRun>>

sessionUnchanged ==
  <<sessions, fetchInProgress, fetchInProgressSeen, isLoading, totalSessions, pendingFetches>>

authUnchanged == <<apiToken, username, isAuthenticated, pendingValidations, isValidating>>

saveCredentials ==
  /\ variant = "Providers"
  /\ \E credentials \in Credentials :
       /\ apiToken' = credentials.apiToken
       /\ username' = credentials.username
  /\ <<apiToken, username>>' # <<apiToken, username>>
  /\ UNCHANGED <<contextUnchanged, sessionUnchanged, isAuthenticated, pendingValidations,
                 isValidating>>

\* validateCredentials up to its await: the request is sent with the
\* token of this render
validateCredentials ==
  /\ variant = "Providers"
  /\ pendingValidations < MaxRequests
  /\ IF ~Truthy(Str(apiToken))
     THEN UNCHANGED <<isValidating, pendingValidations>>
     ELSE /\ isValidating' = TRUE
          /\ pendingValidations' = pendingValidations + 1
  /\ UNCHANGED <<contextUnchanged, sessionUnchanged, apiToken, username, isAuthenticated>>

\* validateCredentials after its await: response.ok, or a response that
\* is not ok, a network error or the 10-second timeout; then finally
validateCredentials_settled ==
  /\ variant = "Providers"
  /\ pendingValidations > 0
  /\ \E ok \in BOOLEAN : isAuthenticated' = ok
  /\ isValidating' = FALSE
  /\ pendingValidations' = pendingValidations - 1
  /\ UNCHANGED <<contextUnchanged, sessionUnchanged, apiToken, username>>

logout ==
  /\ variant = "Providers"
  /\ apiToken' = ""
  /\ username' = ""
  /\ isAuthenticated' = FALSE
  /\ <<apiToken, username, isAuthenticated>>' # <<apiToken, username, isAuthenticated>>
  /\ UNCHANGED <<contextUnchanged, sessionUnchanged, pendingValidations, isValidating>>

\* React renders SessionProvider again: fetchSessions is a new function
\* that holds the current fetchInProgress
Render ==
  /\ variant = "Providers"
  /\ fetchInProgressSeen # fetchInProgress
  /\ fetchInProgressSeen' = fetchInProgress
  /\ UNCHANGED <<contextUnchanged, authUnchanged, sessions, fetchInProgress, isLoading,
                 totalSessions, pendingFetches>>

\* fetchSessions up to its await: the guard reads the fetchInProgress of
\* the render that created the function
fetchSessions ==
  /\ variant = "Providers"
  /\ pendingFetches < MaxRequests
  /\ IF \/ ~isAuthenticated
        \/ ~Truthy(Str(apiToken)) \/ ~Truthy(Str(username))
        \/ fetchInProgressSeen
     THEN UNCHANGED <<fetchInProgress, isLoading, pendingFetches>>
     ELSE /\ fetchInProgress' = TRUE
          /\ isLoading' = TRUE
          /\ pendingFetches' = pendingFetches + 1
  /\ UNCHANGED <<contextUnchanged, authUnchanged, sessions, fetchInProgressSeen, totalSessions>>

\* fetchSessions after its await: the mapped sessions are stored, or the
\* catch block empties the list; then finally
fetchSessions_settled ==
  /\ variant = "Providers"
  /\ pendingFetches > 0
  /\ \/ \E mappedSessions \in SessionLists :
          /\ sessions' = mappedSessions
          \* the total the server reports, or the length of this page
          /\ totalSessions' \in {Len(mappedSessions), Len(mappedSessions) + 1}
     \/ /\ sessions' = <<>>
        /\ totalSessions' = 0
  /\ isLoading' = FALSE
  /\ fetchInProgress' = FALSE
  /\ pendingFetches' = pendingFetches - 1
  /\ UNCHANGED <<contextUnchanged, authUnchanged, fetchInProgressSeen>>

ProvidersNext ==
  \/ saveCredentials
  \/ validateCredentials
  \/ validateCredentials_settled
  \/ logout
  \/ Render
  \/ fetchSessions
  \/ fetchSessions_settled

SpecProviders == PageInit("Providers", <<>>) /\ [][ProvidersNext]_vars

\* ------------------------------------------------------------------------
\* One session against a rule list (the map callback of validateSessions)
\* ------------------------------------------------------------------------
\* the three rules of the concrete scenario
ScenarioRules ==
  << Rule("1", "Minimum FPS Check", "fps.min", "number", ">=", Num(0)),
     Rule("3", "CPU Usage Range", "cpu.avg", "number", "between", Arr(<<Num(0), Num(100)>>)),
     Rule("5", "Session Duration Check", "session.duration", "number", ">", Num(0)) >>

MaxRunRules == 3

RunRuleLists ==
  LET RunRulePool ==
        Range(ScenarioRules) \cup
        { Rule("7", "Device Model Validation", "device.model", "string", "exists", Str("")),
          [Rule("6", "Memory Usage Range", "androidMemory.avg", "number", ">=", Num(0))
             EXCEPT !.enabled = FALSE] }
  IN UNION { [1..n -> RunRulePool] : n \in 0..MaxRunRules }

RunInit ==
  /\ argSession \in EvalSessions
  /\ argRule = Rule("r", "probe", "fps.min", "number", ">=", Num(0))
  /\ outcome = NotCalled
  /\ variant = "none"
  /\ sessions = <<>>
  /\ rules \in RunRuleLists
  /\ newRule = InitialNewRule
  /\ betweenValues = InitialBetweenValues
  /\ selectedDateRange = NoDateRange
  /\ selectedSessions = <<>>
  /\ selectedRule = NoRule
  /\ isRuleFormOpen = FALSE
  /\ dateRange = NoDateRange
  /\ validationResults = <<>>
  /\ isValidating = FALSE
  /\ lastRun = NoRun
  /\ pendingRun = NoPendingRun
  /\ ContextInit

\* the found branch of the map callback applied to argSession and rules
EvaluateRules ==
  /\ ~outcome.called
  /\ LET throws == \E j \in DOMAIN rules :
                     rules[j].enabled /\ validateRule(argSession, rules[j]).throws
         result == FoundResult(IdOf(argSession), argSession, rules)
     IN IF throws
        THEN /\ outcome' = [called |-> TRUE, throws |-> TRUE, value |-> FALSE]
             /\ UNCHANGED validationResults
        ELSE /\ outcome' = [called |-> TRUE, throws |-> FALSE,
                            value |-> result.overallResult = "pass"]
             /\ validationResults' = <<result>>
  /\ UNCHANGED <<argSession, argRule, variant, contextVars, sessions, rules, formVars, selectedSessions,
                 ruleFormVars, isValidating, lastRun>>
  /\ UNCHANGED pendingRun

SpecRun == RunInit /\ [][EvaluateRules]_vars

\* ------------------------------------------------------------------------
\* Validation, the earlier page (rules on a metric, results after a timer)
\* ------------------------------------------------------------------------
LegacyRule(id, name, metric, condition, value) ==
  [id |-> id, name |-> name, metric |-> metric, condition |-> condition, value |-> value,
   enabled |-> TRUE]

\* useState of rules
LegacyRules ==
  << LegacyRule("1", "Minimum FPS", "fps", ">=", Num(30)),
     LegacyRule("2", "Maximum CPU Usage", "cpu", "<", Num(80)),
     LegacyRule("3", "Battery Drain", "battery", "<", Num(5)) >>

\* useState of newRule, and the form as addRule resets it
LegacyNewRule ==
  [name |-> "", metric |-> "fps", condition |-> ">=", value |-> Num(0), enabled |-> TRUE]

\* the callback of enabledRules.map: the switch on rule.metric, then the
\* switch on rule.condition
LegacyRuleResult(session, rule) ==
  LET metric == rule.metric
      actualValue ==
        CASE metric = "fps" -> JsOr(OptChain(session, <<"metrics", "fps", "avg">>), Num(0))
          [] metric = "cpu" -> JsOr(OptChain(session, <<"metrics", "cpu", "avg">>), Num(0))
          [] metric = "memory" -> JsOr(OptChain(session, <<"metrics", "memory", "avg">>), Num(0))
          [] metric = "battery" ->
               JsOr(OptChain(session, <<"metrics", "battery", "drain">>), Num(0))
          [] OTHER -> Num(0)
      passed ==
        CASE rule.condition = ">" -> JsGt(actualValue, rule.value)
          [] rule.condition = ">=" -> JsGe(ToNumber(actualValue), rule.value)
          [] rule.condition = "<" -> JsLt(actualValue, rule.value)
          [] rule.condition = "<=" -> JsLe(ToNumber(actualValue), rule.value)
          [] rule.condition = "==" -> StrictEquals(actualValue, rule.value)
          [] OTHER -> FALSE
  IN [ruleId |-> rule.id, ruleName |-> rule.name,
      passed |-> passed,
      actualValue |-> actualValue,
      expectedCondition |-> rule.condition, expectedValue |-> rule.value]

\* the callback reading the rule list of the moment the timer fires
LegacySessionResult_live(sessionId, sessionList, ruleList) ==
  IF ~HasSession(sessionList, sessionId)
  THEN [sessionId |-> sessionId, appName |-> Str("Unknown"), deviceModel |-> Str("Unknown"),
        rules |-> <<>>, overallResult |-> "fail"]
  ELSE LET session == FindSession(sessionList, sessionId)
           ruleResults == Map(LAMBDA rule : LegacyRuleResult(session, rule), Enabled(rules))
       IN [sessionId |-> sessionId,
           appName |-> Prop(Prop(session, "app"), "name"),
           deviceModel |-> Prop(Prop(session, "device"), "model"),
           rules |-> ruleResults,
           overallResult |-> IF Every(ruleResults) THEN "pass" ELSE "fail"]

\* the callback of selectedSessions.map inside the timer callback
LegacySessionResult(sessionId, sessionList, ruleList) ==
  IF ~HasSession(sessionList, sessionId)
  THEN [sessionId |-> sessionId, appName |-> Str("Unknown"), deviceModel |-> Str("Unknown"),
        rules |-> <<>>, overallResult |-> "fail"]
  ELSE LET session == FindSession(sessionList, sessionId)
           ruleResults == Map(LAMBDA rule : LegacyRuleResult(session, rule), Enabled(ruleList))
       IN [sessionId |-> sessionId,
           appName |-> Prop(Prop(session, "app"), "name"),
           deviceModel |-> Prop(Prop(session, "device"), "model"),
           rules |-> ruleResults,
           overallResult |-> IF Every(ruleResults) THEN "pass" ELSE "fail"]

legacyUnchanged ==
  <<variant, contextVars, betweenValues, selectedDateRange, ruleFormVars, argSession, argRule, outcome>>

\* the session lists a fetch of the earlier SessionContext delivers here
LegacySessionLists == {<<SessionOne, SessionTwo>>, <<SessionOne>>}

\* SessionContext: a fetch ends with setSessions(mappedSessions)
Legacy_FetchSessions ==
  /\ variant = "LegacyValidation"
  /\ \E list \in LegacySessionLists : sessions' = list
  /\ UNCHANGED <<legacyUnchanged, rules, newRule, selectedSessions, validationResults,
                 isValidating, lastRun, pendingRun>>

\* rules of the initial list that were deleted in one behaviour
MaxDeleted == 1

Legacy_toggleSessionSelection ==
  /\ variant = "LegacyValidation"
  /\ \E sessionId \in Ids(sessions) :
       selectedSessions' =
         IF \E i \in DOMAIN selectedSessions : selectedSessions[i] = sessionId
         THEN SelectSeq(selectedSessions, LAMBDA id : id # sessionId)
         ELSE Append(selectedSessions, sessionId)
  /\ UNCHANGED <<legacyUnchanged, sessions, rules, newRule, validationResults, isValidating,
                 lastRun, pendingRun>>

\* the Switch of a rule row passes the new checked state
Legacy_toggleRuleStatus ==
  /\ variant = "LegacyValidation"
  /\ \E row \in EditableRows \cap DOMAIN rules :
       LET id == rules[row].id
           enabled == ~rules[row].enabled
       IN rules' = Map(LAMBDA rule : IF rule.id = id THEN [rule EXCEPT !.enabled = enabled]
                                     ELSE rule, rules)
  /\ UNCHANGED <<legacyUnchanged, sessions, newRule, selectedSessions, validationResults,
                 isValidating, lastRun, pendingRun>>

\* the Switch of any rule row is turned off
Legacy_disableRule ==
  /\ variant = "LegacyValidation"
  /\ \E row \in DOMAIN rules :
       LET id == rules[row].id
       IN /\ rules[row].enabled
          /\ rules' = Map(LAMBDA rule : IF rule.id = id THEN [rule EXCEPT !.enabled = FALSE]
                                        ELSE rule, rules)
  /\ UNCHANGED <<legacyUnchanged, sessions, newRule, selectedSessions, validationResults,
                 isValidating, lastRun, pendingRun>>

Legacy_deleteRule ==
  /\ variant = "LegacyValidation"
  /\ \E row \in EditableRows \cap DOMAIN rules :
       LET id == rules[row].id
       IN rules' = SelectSeq(rules, LAMBDA rule : rule.id # id)
  /\ LET initialIds == {LegacyRules[i].id : i \in DOMAIN LegacyRules}
     IN Len(LegacyRules) - CountIds(rules', initialIds) <= MaxDeleted
  /\ UNCHANGED <<legacyUnchanged, sessions, newRule, selectedSessions, validationResults,
                 isValidating, lastRun, pendingRun>>

\* onChange of the name input
Legacy_setNewRuleName ==
  /\ variant = "LegacyValidation"
  /\ \E name \in FormNames : newRule' = [newRule EXCEPT !.name = name]
  /\ newRule' # newRule
  /\ UNCHANGED <<legacyUnchanged, sessions, rules, selectedSessions, validationResults,
                 isValidating, lastRun, pendingRun>>

Legacy_addRule ==
  /\ variant = "LegacyValidation"
  /\ CountIds(rules, NowValues) < MaxAdded
  /\ \E now \in NowValues :
       IF ~Truthy(Str(newRule.name))
       THEN UNCHANGED <<rules, newRule>>
       ELSE /\ rules' = Append(rules, newRule @@ [id |-> now])
            /\ newRule' = LegacyNewRule
  /\ UNCHANGED <<legacyUnchanged, sessions, selectedSessions, validationResults, isValidating,
                 lastRun, pendingRun>>

\* the Validate button is disabled while isValidating; the callback handed
\* to setTimeout closes over selectedSessions, sessions and rules of this render
Legacy_validateSessions ==
  /\ variant = "LegacyValidation"
  /\ ~isValidating
  /\ IF Len(selectedSessions) = 0 \/ Len(Enabled(rules)) = 0
     THEN UNCHANGED <<isValidating, pendingRun>>
     ELSE /\ isValidating' = TRUE
          /\ pendingRun' = [armed |-> TRUE, selectedSessions |-> selectedSessions,
                            sessions |-> sessions, rules |-> rules]
  /\ UNCHANGED <<legacyUnchanged, sessions, rules, newRule, selectedSessions, validationResults,
                 lastRun>>

\* the setTimeout callback, 1500 ms later
Legacy_timeout ==
  /\ variant = "LegacyValidation"
  /\ pendingRun.armed
  /\ pendingRun' = NoPendingRun
  /\ IF AppOrDeviceMissing(pendingRun.selectedSessions, pendingRun.sessions)
     THEN UNCHANGED <<validationResults, isValidating, lastRun>>
     ELSE /\ validationResults' =
               Map(LAMBDA sessionId :
                     LegacySessionResult(sessionId, pendingRun.sessions, pendingRun.rules),
                   pendingRun.selectedSessions)
          /\ isValidating' = FALSE
          /\ lastRun' = RunOf(pendingRun.selectedSessions, pendingRun.rules, pendingRun.sessions)
  /\ UNCHANGED <<legacyUnchanged, sessions, rules, newRule, selectedSessions>>

LegacyValidationInit ==
  /\ argSession = Obj(<<>>)
  /\ argRule = Rule("r", "probe", "fps.min", "number", ">=", Num(0))
  /\ outcome = NotCalled
  /\ variant = "LegacyValidation"
  /\ sessions = <<>>
  /\ rules = LegacyRules
  /\ newRule = LegacyNewRule
  /\ betweenValues = InitialBetweenValues
  /\ selectedDateRange = NoDateRange
  /\ selectedSessions = <<>>
  /\ selectedRule = NoRule
  /\ isRuleFormOpen = FALSE
  /\ dateRange = NoDateRange
  /\ validationResults = <<>>
  /\ isValidating = FALSE
  /\ lastRun = NoRun
  /\ pendingRun = NoPendingRun
  /\ ContextInit

LegacyValidationNext ==
  \/ Legacy_FetchSessions
  \/ Legacy_toggleSessionSelection
  \/ Legacy_toggleRuleStatus
  \/ Legacy_deleteRule
  \/ Legacy_setNewRuleName
  \/ Legacy_addRule
  \/ Legacy_validateSessions
  \/ Legacy_timeout

SpecLegacyValidation == LegacyValidationInit /\ [][LegacyValidationNext]_vars

\* the steps around a run: fetching, selecting, switching rules on and
\* off, starting a run, and the timer
LegacyRunNext ==
  \/ Legacy_FetchSessions
  \/ Legacy_toggleSessionSelection
  \/ Legacy_toggleRuleStatus
  \/ Legacy_disableRule
  \/ Legacy_validateSessions
  \/ Legacy_timeout

\* the event loop runs the callback of a timer that was set: a run that
\* waits for its timer does not wait for ever (the step that clears
\* pendingRun is Legacy_timeout)
SpecLegacyRun ==
  /\ LegacyValidationInit
  /\ [][LegacyRunNext]_vars
  /\ WF_pendingRun(pendingRun.armed /\ pendingRun' = NoPendingRun)

\* ------------------------------------------------------------------------
\* Properties of the validation runs
\* ------------------------------------------------------------------------
PassedOf(result) == Map(LAMBDA entry : entry.passed, result.rules)


\* C6: in every published result, overallResult is 'pass' exactly when every
\* entry of its rules list passed; a result with an empty rules list,
\* the one of an id missing from the session list included, is a 'pass'.
C6_PassIffAllPassed ==
  \A i \in DOMAIN validationResults :
    (validationResults[i].overallResult = "pass") <=> Every(validationResults[i].rules)

\* C6 (amended): in every published result, overallResult is 'pass' exactly
\* when the session id was found in the session list of the run and every
\* entry of its rules list passed; the result of an id that was not found
\* has an empty rules list and overallResult 'fail'.
C6_PassIffFoundAndAllPassed ==
  \A i \in DOMAIN validationResults :
    LET result == validationResults[i]
        found == result.sessionId \in lastRun.known
    IN /\ (result.overallResult = "pass") <=> (found /\ Every(result.rules))
       /\ ~found => result.rules = <<>> /\ result.overallResult = "fail"

\* a run has published a passing result with entries next to the result
\* of an id that the session list no longer held
C6_Witness ==
  /\ lastRun.published
  /\ \E i \in DOMAIN validationResults :
       /\ validationResults[i].sessionId \in lastRun.known
       /\ validationResults[i].rules # <<>>
       /\ validationResults[i].overallResult = "pass"
  /\ \E i \in DOMAIN validationResults :
       /\ validationResults[i].sessionId \notin lastRun.known
       /\ validationResults[i].overallResult = "fail"

\* C7: the session {fpsMin: -5, cpuUsageAvg: 45, timePlayed: 120} against the
\* rules (fps.min >= 0), (cpu.avg between [0,100]), (session.duration > 0)
\* gives the passed values [false, true, true] and overallResult 'fail'.
C7_Scenario ==
  (outcome.called /\ argSession = ScenarioSession /\ rules = ScenarioRules) =>
    /\ Len(validationResults) = 1
    /\ PassedOf(validationResults[1]) = <<FALSE, TRUE, TRUE>>
    /\ validationResults[1].overallResult = "fail"

\* C8: a run over a non-empty session list with no enabled rule publishes
\* one result per session, each with an empty rules list and 'pass'.
C8_VacuousPass ==
  (lastRun.published /\ lastRun.sessionIds # <<>> /\ lastRun.ruleIds = <<>>) =>
    /\ Len(validationResults) = Len(lastRun.sessionIds)
    /\ \A i \in DOMAIN validationResults :
         /\ validationResults[i].rules = <<>>
         /\ validationResults[i].overallResult = "pass"

\* C9: the i-th published result belongs to the i-th session of the run,
\* and its j-th entry carries the ruleId of the j-th enabled rule.
C9_OrderPreserved ==
  lastRun.published =>
    /\ Len(validationResults) = Len(lastRun.sessionIds)
    /\ \A i \in DOMAIN validationResults :
         /\ validationResults[i].sessionId = lastRun.sessionIds[i]
         /\ \A j \in DOMAIN validationResults[i].rules :
              /\ j \in DOMAIN lastRun.ruleIds
              /\ validationResults[i].rules[j].ruleId = lastRun.ruleIds[j]

\* C10: a completed run publishes exactly one result per session id it was
\* given, also for an id that is not in the stored session list.
C10_NoSessionDropped ==
  lastRun.published => Len(validationResults) = Len(lastRun.sessionIds)

\* C11: no entry of a published result belongs to a rule that was disabled
\* when the run started, and a run leaves the rule list as it was.
C11_DisabledSkipped ==
  /\ [](lastRun.published =>
         \A i \in DOMAIN validationResults :
           \A j \in DOMAIN validationResults[i].rules :
             \E k \in DOMAIN lastRun.ruleIds :
               validationResults[i].rules[j].ruleId = lastRun.ruleIds[k])
  /\ [][validationResults' # validationResults => rules' = rules]_vars

\* C15: no two rules of the rule list share an id, and a step that keeps
\* or extends the rule list keeps the id of every rule it had.
C15_IdsUniqueAndStable ==
  /\ [](\A i \in DOMAIN rules : \A j \in DOMAIN rules : i # j => rules[i].id # rules[j].id)
  /\ [][Len(rules') >= Len(rules) =>
          \A i \in DOMAIN rules : rules'[i].id = rules[i].id]_vars

\* C16: after a completed run the stored result list holds the results of
\* that run, one per session of the run in the order of the run, and
\* nothing that an earlier run produced.
C16_ResultsReplaced ==
  lastRun.published =>
    /\ Len(validationResults) = Len(lastRun.sessionIds)
    /\ \A i \in DOMAIN validationResults :
         i \in DOMAIN lastRun.sessionIds
           => validationResults[i].sessionId = lastRun.sessionIds[i]

\* C21: in every entry of every published result, actualValue is the value
\* getFieldValue resolves for the entry's field on the entry's session, so
\* that a rule on a curated alias reports the aliased attribute's value.
C21_AuditValue ==
  \A i \in DOMAIN validationResults :
    HasSession(<<SessionOne, SessionTwo>>, validationResults[i].sessionId) =>
      LET session == FindSession(<<SessionOne, SessionTwo>>, validationResults[i].sessionId)
      IN \A j \in DOMAIN validationResults[i].rules :
           validationResults[i].rules[j].actualValue =
             getFieldValue(session, validationResults[i].rules[j].field)

\* C22: every rule of the rule list has a two-element array as value
\* exactly when its condition is 'between', and otherwise a scalar of the
\* kind of its operator (for a number rule a number that is not NaN).
C22_ValueShape ==
  \A i \in DOMAIN rules :
    LET rule == rules[i]
        isTuple == rule.value.t = "array" /\ Len(rule.value.a) = 2
    IN /\ isTuple <=> rule.condition = "between"
       /\ ~isTuple =>
            rule.value.t = CASE rule.operator = "number" -> "number"
                             [] rule.operator = "boolean" -> "boolean"
                             [] OTHER -> "string"

C27_ConditionInVocabulary ==
  /\ newRule.condition \in Range(getConditionsForOperator(newRule.operator))
  /\ \A i \in DOMAIN rules :
       rules[i].condition \in Range(getConditionsForOperator(rules[i].operator))

\* a string rule was added with a string condition, and the reset form is
\* back on the number kind with a number condition
C27_Witness ==
  /\ newRule.operator = "number"
  /\ newRule.condition = ">"
  /\ \E i \in DOMAIN rules :
       /\ rules[i].id \in NowValues
       /\ rules[i].operator = "string"
       /\ rules[i].condition = "equals"

\* C23: a run takes the selection, the session list and the rule list of
\* the moment it is started; no step taken while the run is pending
\* changes what it took; and the results it publishes are those of the
\* selection, the sessions and the enabled rules it took.
C23_SnapshotSemantics ==
  [][/\ (~pendingRun.armed /\ pendingRun'.armed) =>
          /\ pendingRun'.selectedSessions = selectedSessions
          /\ pendingRun'.sessions = sessions
          /\ pendingRun'.rules = rules
     /\ (pendingRun.armed /\ pendingRun'.armed) => pendingRun' = pendingRun
     /\ (pendingRun.armed /\ ~pendingRun'.armed) =>
          LET enabledRules == Enabled(pendingRun.rules)
          IN /\ Len(validationResults') = Len(pendingRun.selectedSessions)
             /\ \A i \in DOMAIN validationResults' :
                  LET result == validationResults'[i]
                  IN /\ result.sessionId = pendingRun.selectedSessions[i]
                     /\ IF HasSession(pendingRun.sessions, result.sessionId)
                        THEN /\ Len(result.rules) = Len(enabledRules)
                             /\ \A j \in DOMAIN result.rules :
                                  /\ result.rules[j].ruleId = enabledRules[j].id
                                  /\ result.rules[j].ruleName = enabledRules[j].name
                                  /\ result.rules[j].expectedCondition =
                                       enabledRules[j].condition
                                  /\ result.rules[j].expectedValue = enabledRules[j].value
                        ELSE result.rules = <<>>]_vars

\* a run is pending, and the rule list, the session list and the
\* selection have all been changed since it was started
C23_Witness ==
  /\ pendingRun.armed
  /\ pendingRun.rules # rules
  /\ pendingRun.sessions # sessions
  /\ pendingRun.selectedSessions # selectedSessions

\* C30: a run that has set isValidating is followed by a state in which
\* its results are published and isValidating is false again; the step
\* that ends a run publishes one result per selected session; and while
\* nothing is selected or no rule is enabled, no step starts a run or
\* changes the results.
C30_RunFinishes ==
  /\ isValidating ~> (~isValidating /\ lastRun.published)
  /\ [][(isValidating /\ ~isValidating') =>
          /\ lastRun'.published
          /\ Len(validationResults') = Len(pendingRun.selectedSessions)]_vars
  /\ [][(~isValidating /\ (Len(selectedSessions) = 0 \/ Len(Enabled(rules)) = 0)) =>
          ~isValidating' /\ validationResults' = validationResults]_vars

\* a run has finished and its results are published
C30_Witness ==
  /\ ~isValidating
  /\ ~pendingRun.armed
  /\ lastRun.published
  /\ validationResults # <<>>

\* C26: at most one call of fetchSessions awaits the server; while one
\* does, no step sends another request or changes sessions, totalSessions
\* or isLoading, except the step that ends the fetch; and the step that
\* ends a fetch leaves fetchInProgress and isLoading false.
C26_SingleFetch ==
  /\ [](pendingFetches <= 1)
  /\ [][(pendingFetches > 0 /\ pendingFetches' >= pendingFetches) =>
          /\ pendingFetches' = pendingFetches
          /\ UNCHANGED <<sessions, totalSessions, isLoading>>]_vars
  /\ [][pendingFetches' < pendingFetches => (~fetchInProgress' /\ ~isLoading')]_vars

\* C28: whenever isAuthenticated is true the stored apiToken is not empty.
C28_AuthenticatedHasToken == isAuthenticated => apiToken # ""

====
